---------------------------- MODULE Spec2Model ----------------------------
(***************************************************************************)
(* Resolution of the generated TC387 inverter calibration units.           *)
(*                                                                         *)
(* The calibration set is a group of C headers and sources whose content   *)
(* is selected by build-time axis macros.  "Resolving" a build context is  *)
(* what the preprocessor and compiler do with these files: every           *)
(* translation unit is read top to bottom, #include pushes a file, an      *)
(* include guard makes a second inclusion contribute nothing, an #if chain *)
(* selects one branch by the value of an axis macro, #error records a      *)
(* diagnostic, #define binds a macro, and an object definition binds a     *)
(* calibration constant whose initializer is expanded against the macros   *)
(* bound at that point.  A build with at least one diagnostic produces no  *)
(* table.                                                                  *)
(***************************************************************************)
EXTENDS Integers, Sequences, FiniteSets, TLC

(***************************************************************************)
(* Bounds of the model.                                                    *)
(***************************************************************************)
\* number of times the same context is resolved in one behaviour
NumRuns == 2
\* include nesting limit of the preprocessor (deeper nesting is a diagnostic)
MaxIncludeDepth == 6

(***************************************************************************)
(* Axis macros and their enumerators.                                      *)
(***************************************************************************)
Undefined == "_UNDEFINED_OPTION"
\* a value that equals no enumerator of the axis and is not _UNDEFINED_OPTION
Other == "_NOT_ENUMERATED"

Projects == {"_MV_RWD_PROJ", "_ME_RWD_PROJ"}

PerformanceTypes ==
    {"_STANDARD_VERSION", "_PERFORMANCE_VERSION", "_LONG_RANGE_VERSION",
     "_eM_160kW_VERSION", "_eM_200kW_VERSION", "_eM_250kW_VERSION"}

DevelopmentPhases ==
    {"_TCAR_VERSION", "_PROTO_VERSION", "_MASTER_VERSION", "_PILOT_1_VERSION",
     "_PILOT_2_VERSION", "_M_VERSION", "_SOP_VERSION", "_RC_VERSION"}

NonNaMarkets ==
    {"_DOMESTIC_VERSION", "_EUROPE_VERSION", "_CHINA_VERSION",
     "_COMMON_COUNTRY_VERSION", "_JAPAN_VERSION"}

MarketVersions == {"_NORTH_AMERICA_VERSION"} \cup NonNaMarkets

GateIcTypes ==
    {"_GATE_IC_TYPE_1", "_GATE_IC_TYPE_2", "_GATE_IC_TYPE_3", "_GATE_IC_TYPE_4",
     "_GATE_IC_TYPE_5", "_GATE_IC_TYPE_6", "_GATE_IC_TYPE_7",
     "_GATE_IC_TYPE_8_NV74_TCAR"}

PowerModuleTypes ==
    {"_PM_CASE_TYPE", "_PM_DSC_TYPE_1", "_PM_DSC_TYPE_2", "_PM_HP_DRIVE_TYPE",
     "_PM_CVeGT_TYPE", "_PM_NV74_TYPE", "_PM_MV_TYPE"}

MotCurSensorTypes ==
    {"_MOT_400A_SCALE_HALL", "_MOT_400A_SCALE_SHUNT_TYPE1",
     "_MOT_500A_SCALE_SHUNT_TYPE1", "_MOT_600A_SCALE_SHUNT_TYPE1",
     "_MOT_400A_SCALE_SHUNT_TYPE2", "_MOT_500A_SCALE_HALL",
     "_MOT_700A_SCALE_HALL", "_MOT_700A_SCALE_SHUNT_0", "_MOT_850A_SCALE_HALL",
     "_MOT_850A_SCALE_HALL_FOR_HPV", "_MOT_1000A_SCALE_HALL",
     "_MOT_1300A_SCALE_HALL", "_MOT_1100A_SCALE_HALL", "_MOT_1500A_SCALE_HALL",
     "_MOT_700A_SCALE_CORELESS", "_MOT_700A_SCALE_CORELESS_TYPE2",
     "_MOT_650A_SCALE_CORELESS_TYPE"}

EtpuOptions == {"_SINGLE_STAGE_SYSTEM", "_TWO_STAGE_SYSTEM"}

UpdateTimeModes == {"_UPDATETIME_AUTO", "_UPDATETIME_MANUAL"}

TwoStagePwmModes == {"_2STG_SVPWM", "_2STG_RSPWM"}

SqpwmRegenModes == {"_SQPWM_REGEN_ENB", "_SQPWM_REGEN_DIS"}

BurstModes == {"_BURST_MODE_ENABLE", "_BURST_MODE_DISABLE"}

VarDtgsOptions == {"_VAR_DTGS_OPTION_INCLUDED", "_VAR_DTGS_OPTION_NOT_INCLUDED"}

ProjectAxes ==
    {"_PROJECT_NAME", "_PERFORMANCE_TYPE", "_DEVELOPMENT_PHASE", "_MARKET_VERSION"}

\* the axes whose #if chain is not nested in another axis
FlatAxes ==
    {"_GATE_IC_TYPE", "_POWER_MODULE_TYPE", "_MOT_CUR_SENSOR_TYPE",
     "_ETPU_CALCULATION_TIME_OPTION", "_PWM_UPDATETIME_AUTO_MODE",
     "_SA_2STAGE_PWM_MODE", "_SA_SQPWM_REGEN_DIS", "_PWM_BURST_MODE",
     "_VAR_DTGS_OPTION"}

Axes == ProjectAxes \cup FlatAxes

Enumerators(axis) ==
    CASE axis = "_PROJECT_NAME" -> Projects
      [] axis = "_PERFORMANCE_TYPE" -> PerformanceTypes
      [] axis = "_DEVELOPMENT_PHASE" -> DevelopmentPhases
      [] axis = "_MARKET_VERSION" -> MarketVersions
      [] axis = "_GATE_IC_TYPE" -> GateIcTypes
      [] axis = "_POWER_MODULE_TYPE" -> PowerModuleTypes
      [] axis = "_MOT_CUR_SENSOR_TYPE" -> MotCurSensorTypes
      [] axis = "_ETPU_CALCULATION_TIME_OPTION" -> EtpuOptions
      [] axis = "_PWM_UPDATETIME_AUTO_MODE" -> UpdateTimeModes
      [] axis = "_SA_2STAGE_PWM_MODE" -> TwoStagePwmModes
      [] axis = "_SA_SQPWM_REGEN_DIS" -> SqpwmRegenModes
      [] axis = "_PWM_BURST_MODE" -> BurstModes
      [] axis = "_VAR_DTGS_OPTION" -> VarDtgsOptions

(***************************************************************************)
(* Initializer expressions, macro bodies, declarations and definitions as  *)
(* they are written in the units.  A decimal literal d is kept exact as    *)
(* the pair (m, e) with d = m * 10^e.  tgt is the target identity an       *)
(* entry is derived from: the _MOT / _HSG part of the macro it references  *)
(* or the row comment of a table.                                          *)
(***************************************************************************)
Dec(m, e) == [m |-> m, e |-> e]

E(op, refs, m, e, k, tgt, row) ==
    [op |-> op, refs |-> refs, m |-> m, e |-> e, k |-> k, tgt |-> tgt, row |-> row]

\* a literal
Lit(m, e) == E("lit", <<>>, m, e, 0, "", <<>>)
\* a macro or enumerator name
Ref(n, t) == E("ref", <<n>>, 1, 0, 0, t, <<>>)
\* NAME * literal
Mul(n, m, e, t) == E("mul", <<n>>, m, e, 0, t, <<>>)
\* 1.f / (NAME * literal)
Rcp(n, m, e, t) == E("rcp", <<n>>, m, e, 0, t, <<>>)
\* (NAME - k) * literal
Off(n, k, m, e, t) == E("off", <<n>>, m, e, k, t, <<>>)
\* literal * 2^k
Fix(m, e, k) == E("fix", <<>>, m, e, k, "", <<>>)
\* (A / B) * literal and ((A - B) / C) * literal
Ratio(refs, m, e) == E("ratio", refs, m, e, 0, "", <<>>)
\* c * (400.f * PI * 0.3f)^k
PiPow(c, k) == E("pi", <<"PI">>, c, 0, k, "", <<>>)
\* one brace-enclosed row of a two-dimensional table
Row(t, vals) == E("row", <<>>, 0, 0, 0, t, vals)
\* an element the initializer list does not supply: the compiler stores 0
ZeroFill == E("zero", <<>>, 0, 0, 0, "", <<>>)

\* #define name body
M(name, body) == [name |-> name, body |-> body]
\* extern [const] type name[dims];
X(name, type, const, dims) ==
    [name |-> name, type |-> type, const |-> const, dims |-> dims]
\* [const] type name[dims] = init;
D(name, type, const, dims, init) ==
    [name |-> name, type |-> type, const |-> const, dims |-> dims, init |-> init]

(***************************************************************************)
(* The content of the units, transcribed line by line.                     *)
(***************************************************************************)
Defines(f) ==
    CASE f = "SpInvCal.h" ->
         <<M("VAR_FSW_JNC_COMP_TAB_SIZE", Lit(3, 0)),
         M("HILL_HOLD_SPEED_SIZE", Lit(3, 0)),
         M("HILL_HOLD_TRQ_SIZE", Lit(5, 0)),
         M("INV_TMP_TAB_SIZE", Lit(22, 0)),
         M("JNV_LIFE_CYCLE_TAB_SIZE", Lit(24, 0)),
         M("EWP_TAB_COL_SIZE", Lit(4, 0)),
         M("RAD_TAB_COL_SIZE", Lit(5, 0)),
         M("RAD_TAB_ROW_SIZE", Lit(3, 0)),
         M("ABC_TO_UVW", Lit(1, 0)),
         M("ABC_TO_WVU", Lit(2, 0)),
         M("A_TO_INV1", Lit(1, 0)),
         M("A_TO_INV2", Lit(2, 0))>>
      [] f = "BswCfgPwm.h" ->
         <<M("BSWCFGPWM_MOT_START", Lit(125000, 0)),
         M("BSWCFGPWM_MOT_PERIOD", Lit(250000, 0)),
         M("BSWCFGPWM_MOT_PWMMAC_MODE", Ref("ITRCPX_SAMPLMODE_DOUBLE", "")),
         M("BSWCFGPWM_HSG_START", Lit(125000, 0)),
         M("BSWCFGPWM_HSG_PERIOD", Lit(250000, 0)),
         M("BSWCFGPWM_HSG_PWMMAC_MODE", Ref("ITRCPX_SAMPLMODE_DOUBLE", ""))>>
      [] f = "BswCfgRdc.h" ->
         <<M("BSWCFGRDC_MOT_K1_D", Lit(5605666, -7)),
         M("BSWCFGRDC_MOT_K2_D", Lit(7535489, -7)),
         M("BSWCFGRDC_MOT_K1_SCALE", Lit(6, 0)),
         M("BSWCFGRDC_MOT_K2_SCALE", Lit(5, 0)),
         M("BSWCFGRDC_MOT_SIN_DC_OFFSET", Lit(0, 0)),
         M("BSWCFGRDC_MOT_COS_DC_OFFSET", Lit(0, 0)),
         M("BSWCFGRDC_MOT_SIN_SCALE", Lit(1200, 0)),
         M("BSWCFGRDC_MOT_COS_SCALE", Lit(1200, 0)),
         M("BSWCFGRDC_HSG_K1_D", Lit(5605666, -7)),
         M("BSWCFGRDC_HSG_K2_D", Lit(7535489, -7)),
         M("BSWCFGRDC_HSG_K1_SCALE", Lit(6, 0)),
         M("BSWCFGRDC_HSG_K2_SCALE", Lit(5, 0)),
         M("BSWCFGRDC_HSG_SIN_DC_OFFSET", Lit(0, 0)),
         M("BSWCFGRDC_HSG_COS_DC_OFFSET", Lit(0, 0)),
         M("BSWCFGRDC_HSG_SIN_SCALE", Lit(1200, 0)),
         M("BSWCFGRDC_HSG_COS_SCALE", Lit(1200, 0)),
         M("BSWCFGRDC_MOT_PERIOD", Lit(66, 0)),
         M("BSWCFGRDC_MOT_START_OFFSET", Lit(5, 0)),
         M("BSWCFGRDC_MOT_UNITRIG_START_OFFSET", Lit(33005, 0)),
         M("BSWCFGRDC_HSG_PERIOD", Lit(66, 0)),
         M("BSWCFGRDC_HSG_START_OFFSET", Lit(30, 0)),
         M("BSWCFGRDC_HSG_UNITRIG_START_OFFSET", Lit(33030, 0))>>
      [] f = "CcCalBase.h" ->
         <<M("POSITIVE_TO_VEHICLE_DIRECTION", Lit(1, 0)),
         M("NEGATIVE_TO_VEHICLE_DIRECTION", Lit(2, 0)),
         M("IDX_AD_CH_MAX_NUM", Lit(15, 0)),
         M("VARIABLE_FSW_TAB_OUT_SIZE", Lit(9, 0)),
         M("VAR_FSW_JNC_COMP_TAB_SIZE", Lit(3, 0)),
         M("CUR_SENSOR_OFFSET_MOT", Lit(2048, 0)),
         M("CUR_SENSOR_SCALE_MOT", Mul("CUR_SENSOR_RANGE_MOT", 61035, -8, "MOT")),
         M("HVBATT_SENSOR_OFFSET", Lit(0, 0)),
         M("HVBATT_SENSOR_SCALE", Ratio(<<"HVBATT_SENSOR_RANGE", "HVBATT_SENSOR_RANGE_TYP">>, 12207, -7)),
         M("CUR_SENSOR_OFFSET_HSG", Lit(2048, 0)),
         M("CUR_SENSOR_SCALE_HSG", Mul("CUR_SENSOR_RANGE_HSG", 61035, -8, "HSG")),
         M("LVBATT_SENSOR_OFFSET", Ref("LVBATT_SENSOR_RANGE_OFFSET", "")),
         M("LVBATT_SENSOR_SCALE", Ratio(<<"LVBATT_SENSOR_RANGE", "LVBATT_SENSOR_RANGE_OFFSET", "LVBATT_SENSOR_RANGE_TYP">>, 12207, -7))>>
      [] OTHER -> <<>>

PhaseSelectors(prj, ph) ==
    CASE prj = "_MV_RWD_PROJ" /\ ph = "_TCAR_VERSION" ->
         <<M("_MI_REF_SETTING", Ref("_MI_REF_100", "")),
           M("_12SMP_COND", Ref("_12SMP_OFF", "")),
           M("_RPWM_COND", Ref("_RPWM_OFF", "")),
           M("_NO_LOAD_TQ_COMP_COND", Ref("NO_LOAD_TQ_COMP_OFF", "")),
           M("_SW_RDC_SETTING", Ref("_MV_EV_TCAR_REAR_SW_RDC", "")),
           M("_ROC_RPWM_FUNCTION", Ref("_ROC_RPWM_DISABLE", "")),
           M("_FSW_FSAMP_FREQ", Ref("_7kHz_DOUBLE", "")),
           M("_OEW_FSW_FSAMP_FREQ", Ref("_OEW_6_5kHz_DOUBLE", "")),
           M("_ODC_FSW_FSAMP_FREQ", Ref("_ODC_12kHz_SINGLE_ALL", "")),
           M("_MULTI_DC_METHOD_", Ref("_MULTI_INTEG", "")),
           M("_MULTI_NON_LINEAR_COMP", Ref("_LENEAR_COMP_ON", "")),
           M("_CUR_MAP_VERSION", Ref("_MV_TCAR_REAR_CUR_MAP", "")),
           M("_MOTOR_TYPE", Ref("_MV_TCAR_REAR_MOTOR", "")),
           M("_POWER_CAL_VERSION", Ref("_MV_EV_TCAR_REAR_154KW_POWER_CAL", "")),
           M("_DELTA_TRQREF", Ref("_DELTA_TRQREF_4", ""))>>
    [] prj = "_MV_RWD_PROJ" /\ ph = "_PROTO_VERSION" ->
         <<M("_MI_REF_SETTING", Ref("_MI_REF_103", "")),
           M("_12SMP_COND", Ref("_12SMP_OFF", "")),
           M("_RPWM_COND", Ref("_RPWM_01_03_ON", "")),
           M("_NO_LOAD_TQ_COMP_COND", Ref("NO_LOAD_TQ_COMP_OFF", "")),
           M("_SW_RDC_SETTING", Ref("_MV_EV_PROTO_REAR_SW_RDC", "")),
           M("_ROC_RPWM_FUNCTION", Ref("_ROC_RPWM_DISABLE", "")),
           M("_FSW_FSAMP_FREQ", Ref("_12kHz_SINGLE_ALL", "")),
           M("_OEW_FSW_FSAMP_FREQ", Ref("_OEW_6_5kHz_DOUBLE", "")),
           M("_ODC_FSW_FSAMP_FREQ", Ref("_ODC_12kHz_SINGLE_ALL", "")),
           M("_MULTI_DC_METHOD_", Ref("_MULTI_INTEG", "")),
           M("_MULTI_NON_LINEAR_COMP", Ref("_LENEAR_COMP_ON", "")),
           M("_CUR_MAP_VERSION", Ref("_MV_PROTO_REAR_CUR_MAP", "")),
           M("_MOTOR_TYPE", Ref("_MV_PROTO_REAR_MOTOR", "")),
           M("_POWER_CAL_VERSION", Ref("_MV_EV_PROTO_REAR_160KW_POWER_CAL", "")),
           M("_DELTA_TRQREF", Ref("_DELTA_TRQREF_4", ""))>>
    [] prj = "_MV_RWD_PROJ" /\ ph = "_MASTER_VERSION" ->
         <<M("_MI_REF_SETTING", Ref("_MI_REF_103", "")),
           M("_12SMP_COND", Ref("_12SMP_OFF", "")),
           M("_RPWM_COND", Ref("_RPWM_01_03_ON", "")),
           M("_NO_LOAD_TQ_COMP_COND", Ref("NO_LOAD_TQ_COMP_OFF", "")),
           M("_SW_RDC_SETTING", Ref("_MV_EV_PROTO_REAR_SW_RDC", "")),
           M("_ROC_RPWM_FUNCTION", Ref("_ROC_RPWM_DISABLE", "")),
           M("_FSW_FSAMP_FREQ", Ref("_12kHz_SINGLE_ALL", "")),
           M("_OEW_FSW_FSAMP_FREQ", Ref("_OEW_12kHz_SINGLE_ALL", "")),
           M("_ODC_FSW_FSAMP_FREQ", Ref("_ODC_12kHz_SINGLE_ALL", "")),
           M("_MULTI_DC_METHOD_", Ref("_MULTI_INTEG", "")),
           M("_MULTI_NON_LINEAR_COMP", Ref("_LENEAR_COMP_ON", "")),
           M("_CUR_MAP_VERSION", Ref("_MV_PROTO_REAR_CUR_MAP", "")),
           M("_MOTOR_TYPE", Ref("_MV_PROTO_REAR_MOTOR", "")),
           M("_POWER_CAL_VERSION", Ref("_MV_EV_PROTO_REAR_160KW_POWER_CAL", "")),
           M("_DELTA_TRQREF", Ref("_DELTA_TRQREF_4", ""))>>
    [] prj = "_MV_RWD_PROJ" /\ ph = "_PILOT_1_VERSION" ->
         <<M("_MI_REF_SETTING", Ref("_MI_REF_103", "")),
           M("_12SMP_COND", Ref("_12SMP_OFF", "")),
           M("_RPWM_COND", Ref("_RPWM_01_03_ON", "")),
           M("_NO_LOAD_TQ_COMP_COND", Ref("NO_LOAD_TQ_COMP_OFF", "")),
           M("_SW_RDC_SETTING", Ref("_MV_EV_P1_REAR_SW_RDC", "")),
           M("_ROC_RPWM_FUNCTION", Ref("_ROC_RPWM_DISABLE", "")),
           M("_FSW_FSAMP_FREQ", Ref("_12kHz_SINGLE_ALL", "")),
           M("_OEW_FSW_FSAMP_FREQ", Ref("_OEW_12kHz_SINGLE_ALL", "")),
           M("_ODC_FSW_FSAMP_FREQ", Ref("_ODC_12kHz_SINGLE_ALL", "")),
           M("_MULTI_DC_METHOD_", Ref("_MULTI_INTEG", "")),
           M("_MULTI_NON_LINEAR_COMP", Ref("_LENEAR_COMP_ON", "")),
           M("_CUR_MAP_VERSION", Ref("_MV_PROTO_REAR_CUR_MAP", "")),
           M("_MOTOR_TYPE", Ref("_MV_P2_REAR_MOTOR", "")),
           M("_POWER_CAL_VERSION", Ref("_MV_EV_PROTO_REAR_160KW_POWER_CAL", "")),
           M("_DELTA_TRQREF", Ref("_DELTA_TRQREF_4", ""))>>
    [] prj = "_MV_RWD_PROJ" /\ ph = "_PILOT_2_VERSION" ->
         <<M("_MI_REF_SETTING", Ref("_MI_REF_103", "")),
           M("_12SMP_COND", Ref("_12SMP_OFF", "")),
           M("_RPWM_COND", Ref("_RPWM_01_03_ON", "")),
           M("_NO_LOAD_TQ_COMP_COND", Ref("NO_LOAD_TQ_COMP_OFF", "")),
           M("_SW_RDC_SETTING", Ref("_MV_EV_P1_REAR_SW_RDC", "")),
           M("_ROC_RPWM_FUNCTION", Ref("_ROC_RPWM_DISABLE", "")),
           M("_FSW_FSAMP_FREQ", Ref("_12kHz_SINGLE_ALL", "")),
           M("_OEW_FSW_FSAMP_FREQ", Ref("_OEW_12kHz_SINGLE_ALL", "")),
           M("_ODC_FSW_FSAMP_FREQ", Ref("_ODC_12kHz_SINGLE_ALL", "")),
           M("_MULTI_DC_METHOD_", Ref("_MULTI_INTEG", "")),
           M("_MULTI_NON_LINEAR_COMP", Ref("_LENEAR_COMP_ON", "")),
           M("_CUR_MAP_VERSION", Ref("_MV_PROTO_REAR_CUR_MAP", "")),
           M("_MOTOR_TYPE", Ref("_MV_P2_REAR_MOTOR", "")),
           M("_POWER_CAL_VERSION", Ref("_MV_EV_PROTO_REAR_160KW_POWER_CAL", "")),
           M("_DELTA_TRQREF", Ref("_DELTA_TRQREF_4", ""))>>
    [] prj = "_MV_RWD_PROJ" /\ ph = "_M_VERSION" ->
         <<M("_MI_REF_SETTING", Ref("_MI_REF_103", "")),
           M("_12SMP_COND", Ref("_12SMP_OFF", "")),
           M("_RPWM_COND", Ref("_RPWM_01_03_ON", "")),
           M("_NO_LOAD_TQ_COMP_COND", Ref("NO_LOAD_TQ_COMP_OFF", "")),
           M("_SW_RDC_SETTING", Ref("_MV_EV_P1_REAR_SW_RDC", "")),
           M("_ROC_RPWM_FUNCTION", Ref("_ROC_RPWM_DISABLE", "")),
           M("_FSW_FSAMP_FREQ", Ref("_12kHz_SINGLE_ALL", "")),
           M("_OEW_FSW_FSAMP_FREQ", Ref("_OEW_12kHz_SINGLE_ALL", "")),
           M("_ODC_FSW_FSAMP_FREQ", Ref("_ODC_12kHz_SINGLE_ALL", "")),
           M("_MULTI_DC_METHOD_", Ref("_MULTI_INTEG", "")),
           M("_MULTI_NON_LINEAR_COMP", Ref("_LENEAR_COMP_ON", "")),
           M("_CUR_MAP_VERSION", Ref("_MV_PROTO_REAR_CUR_MAP", "")),
           M("_MOTOR_TYPE", Ref("_MV_P2_REAR_MOTOR", "")),
           M("_POWER_CAL_VERSION", Ref("_MV_EV_PROTO_REAR_160KW_POWER_CAL", "")),
           M("_DELTA_TRQREF", Ref("_DELTA_TRQREF_4", ""))>>
    [] prj = "_MV_RWD_PROJ" /\ ph = "_SOP_VERSION" ->
         <<M("_MI_REF_SETTING", Ref("_MI_REF_103", "")),
           M("_12SMP_COND", Ref("_12SMP_OFF", "")),
           M("_RPWM_COND", Ref("_RPWM_01_03_ON", "")),
           M("_NO_LOAD_TQ_COMP_COND", Ref("NO_LOAD_TQ_COMP_OFF", "")),
           M("_SW_RDC_SETTING", Ref("_MV_EV_P1_REAR_SW_RDC", "")),
           M("_ROC_RPWM_FUNCTION", Ref("_ROC_RPWM_DISABLE", "")),
           M("_FSW_FSAMP_FREQ", Ref("_12kHz_SINGLE_ALL", "")),
           M("_OEW_FSW_FSAMP_FREQ", Ref("_OEW_12kHz_SINGLE_ALL", "")),
           M("_ODC_FSW_FSAMP_FREQ", Ref("_ODC_12kHz_SINGLE_ALL", "")),
           M("_MULTI_DC_METHOD_", Ref("_MULTI_INTEG", "")),
           M("_MULTI_NON_LINEAR_COMP", Ref("_LENEAR_COMP_ON", "")),
           M("_CUR_MAP_VERSION", Ref("_MV_PROTO_REAR_CUR_MAP", "")),
           M("_MOTOR_TYPE", Ref("_MV_P2_REAR_MOTOR", "")),
           M("_POWER_CAL_VERSION", Ref("_MV_EV_PROTO_REAR_160KW_POWER_CAL", "")),
           M("_DELTA_TRQREF", Ref("_DELTA_TRQREF_4", ""))>>
    [] prj = "_MV_RWD_PROJ" /\ ph = "_RC_VERSION" ->
         <<M("_MI_REF_SETTING", Ref("_MI_REF_103", "")),
           M("_12SMP_COND", Ref("_12SMP_OFF", "")),
           M("_RPWM_COND", Ref("_RPWM_01_03_ON", "")),
           M("_NO_LOAD_TQ_COMP_COND", Ref("NO_LOAD_TQ_COMP_OFF", "")),
           M("_SW_RDC_SETTING", Ref("_MV_EV_P1_REAR_SW_RDC", "")),
           M("_ROC_RPWM_FUNCTION", Ref("_ROC_RPWM_DISABLE", "")),
           M("_FSW_FSAMP_FREQ", Ref("_12kHz_SINGLE_ALL", "")),
           M("_OEW_FSW_FSAMP_FREQ", Ref("_OEW_12kHz_SINGLE_ALL", "")),
           M("_ODC_FSW_FSAMP_FREQ", Ref("_ODC_12kHz_SINGLE_ALL", "")),
           M("_MULTI_DC_METHOD_", Ref("_MULTI_INTEG", "")),
           M("_MULTI_NON_LINEAR_COMP", Ref("_LENEAR_COMP_ON", "")),
           M("_CUR_MAP_VERSION", Ref("_MV_PROTO_REAR_CUR_MAP", "")),
           M("_MOTOR_TYPE", Ref("_MV_P2_REAR_MOTOR", "")),
           M("_POWER_CAL_VERSION", Ref("_MV_EV_PROTO_REAR_160KW_POWER_CAL", "")),
           M("_DELTA_TRQREF", Ref("_DELTA_TRQREF_4", ""))>>
    [] prj = "_ME_RWD_PROJ" /\ ph = "_TCAR_VERSION" ->
         <<M("_MI_REF_SETTING", Ref("_MI_REF_103", "")),
           M("_12SMP_COND", Ref("_12SMP_OFF", "")),
           M("_RPWM_COND", Ref("_RPWM_01_03_ON", "")),
           M("_NO_LOAD_TQ_COMP_COND", Ref("NO_LOAD_TQ_COMP_OFF", "")),
           M("_SW_RDC_SETTING", Ref("_MV_EV_PROTO_REAR_SW_RDC", "")),
           M("_ROC_RPWM_FUNCTION", Ref("_ROC_RPWM_DISABLE", "")),
           M("_FSW_FSAMP_FREQ", Ref("_12kHz_SINGLE_ALL", "")),
           M("_OEW_FSW_FSAMP_FREQ", Ref("_OEW_6_5kHz_DOUBLE", "")),
           M("_ODC_FSW_FSAMP_FREQ", Ref("_ODC_12kHz_SINGLE_ALL", "")),
           M("_MULTI_DC_METHOD_", Ref("_MULTI_INTEG", "")),
           M("_MULTI_NON_LINEAR_COMP", Ref("_LENEAR_COMP_ON", "")),
           M("_CUR_MAP_VERSION", Ref("_MV_PROTO_REAR_CUR_MAP", "")),
           M("_MOTOR_TYPE", Ref("_MV_PROTO_REAR_MOTOR", "")),
           M("_POWER_CAL_VERSION", Ref("_MV_EV_PROTO_REAR_160KW_POWER_CAL", "")),
           M("_DELTA_TRQREF", Ref("_DELTA_TRQREF_4", ""))>>
    [] prj = "_ME_RWD_PROJ" /\ ph = "_PROTO_VERSION" ->
         <<M("_MI_REF_SETTING", Ref("_MI_REF_103", "")),
           M("_12SMP_COND", Ref("_12SMP_OFF", "")),
           M("_RPWM_COND", Ref("_RPWM_01_03_ON", "")),
           M("_NO_LOAD_TQ_COMP_COND", Ref("NO_LOAD_TQ_COMP_OFF", "")),
           M("_SW_RDC_SETTING", Ref("_MV_EV_P1_REAR_SW_RDC", "")),
           M("_ROC_RPWM_FUNCTION", Ref("_ROC_RPWM_DISABLE", "")),
           M("_FSW_FSAMP_FREQ", Ref("_12kHz_SINGLE_ALL", "")),
           M("_OEW_FSW_FSAMP_FREQ", Ref("_OEW_12kHz_SINGLE_ALL", "")),
           M("_ODC_FSW_FSAMP_FREQ", Ref("_ODC_12kHz_SINGLE_ALL", "")),
           M("_MULTI_DC_METHOD_", Ref("_MULTI_INTEG", "")),
           M("_MULTI_NON_LINEAR_COMP", Ref("_LENEAR_COMP_ON", "")),
           M("_CUR_MAP_VERSION", Ref("_MV_PROTO_REAR_CUR_MAP", "")),
           M("_DELTA_TRQREF", Ref("_DELTA_TRQREF_4", ""))>>
    [] prj = "_ME_RWD_PROJ" /\ ph = "_MASTER_VERSION" ->
         <<M("_MI_REF_SETTING", Ref("_MI_REF_103", "")),
           M("_12SMP_COND", Ref("_12SMP_OFF", "")),
           M("_RPWM_COND", Ref("_RPWM_01_03_ON", "")),
           M("_NO_LOAD_TQ_COMP_COND", Ref("NO_LOAD_TQ_COMP_OFF", "")),
           M("_SW_RDC_SETTING", Ref("_MV_EV_P1_REAR_SW_RDC", "")),
           M("_ROC_RPWM_FUNCTION", Ref("_ROC_RPWM_DISABLE", "")),
           M("_FSW_FSAMP_FREQ", Ref("_12kHz_SINGLE_ALL", "")),
           M("_OEW_FSW_FSAMP_FREQ", Ref("_OEW_12kHz_SINGLE_ALL", "")),
           M("_ODC_FSW_FSAMP_FREQ", Ref("_ODC_12kHz_SINGLE_ALL", "")),
           M("_MULTI_DC_METHOD_", Ref("_MULTI_INTEG", "")),
           M("_MULTI_NON_LINEAR_COMP", Ref("_LENEAR_COMP_ON", "")),
           M("_CUR_MAP_VERSION", Ref("_MV_PROTO_REAR_CUR_MAP", "")),
           M("_DELTA_TRQREF", Ref("_DELTA_TRQREF_4", ""))>>
    [] prj = "_ME_RWD_PROJ" /\ ph = "_PILOT_1_VERSION" ->
         <<M("_MI_REF_SETTING", Ref("_MI_REF_103", "")),
           M("_12SMP_COND", Ref("_12SMP_OFF", "")),
           M("_RPWM_COND", Ref("_RPWM_01_03_ON", "")),
           M("_NO_LOAD_TQ_COMP_COND", Ref("NO_LOAD_TQ_COMP_OFF", "")),
           M("_SW_RDC_SETTING", Ref("_MV_EV_P1_REAR_SW_RDC", "")),
           M("_ROC_RPWM_FUNCTION", Ref("_ROC_RPWM_DISABLE", "")),
           M("_FSW_FSAMP_FREQ", Ref("_12kHz_SINGLE_ALL", "")),
           M("_OEW_FSW_FSAMP_FREQ", Ref("_OEW_12kHz_SINGLE_ALL", "")),
           M("_ODC_FSW_FSAMP_FREQ", Ref("_ODC_12kHz_SINGLE_ALL", "")),
           M("_MULTI_DC_METHOD_", Ref("_MULTI_INTEG", "")),
           M("_MULTI_NON_LINEAR_COMP", Ref("_LENEAR_COMP_ON", "")),
           M("_CUR_MAP_VERSION", Ref("_MV_PROTO_REAR_CUR_MAP", "")),
           M("_DELTA_TRQREF", Ref("_DELTA_TRQREF_4", ""))>>
    [] prj = "_ME_RWD_PROJ" /\ ph = "_PILOT_2_VERSION" ->
         <<M("_MI_REF_SETTING", Ref("_MI_REF_103", "")),
           M("_12SMP_COND", Ref("_12SMP_OFF", "")),
           M("_RPWM_COND", Ref("_RPWM_01_03_ON", "")),
           M("_NO_LOAD_TQ_COMP_COND", Ref("NO_LOAD_TQ_COMP_OFF", "")),
           M("_SW_RDC_SETTING", Ref("_MV_EV_P1_REAR_SW_RDC", "")),
           M("_ROC_RPWM_FUNCTION", Ref("_ROC_RPWM_DISABLE", "")),
           M("_FSW_FSAMP_FREQ", Ref("_12kHz_SINGLE_ALL", "")),
           M("_OEW_FSW_FSAMP_FREQ", Ref("_OEW_12kHz_SINGLE_ALL", "")),
           M("_ODC_FSW_FSAMP_FREQ", Ref("_ODC_12kHz_SINGLE_ALL", "")),
           M("_MULTI_DC_METHOD_", Ref("_MULTI_INTEG", "")),
           M("_MULTI_NON_LINEAR_COMP", Ref("_LENEAR_COMP_ON", "")),
           M("_CUR_MAP_VERSION", Ref("_MV_PROTO_REAR_CUR_MAP", "")),
           M("_DELTA_TRQREF", Ref("_DELTA_TRQREF_4", ""))>>
    [] prj = "_ME_RWD_PROJ" /\ ph = "_M_VERSION" ->
         <<M("_MI_REF_SETTING", Ref("_MI_REF_103", "")),
           M("_12SMP_COND", Ref("_12SMP_OFF", "")),
           M("_RPWM_COND", Ref("_RPWM_01_03_ON", "")),
           M("_NO_LOAD_TQ_COMP_COND", Ref("NO_LOAD_TQ_COMP_OFF", "")),
           M("_SW_RDC_SETTING", Ref("_MV_EV_P1_REAR_SW_RDC", "")),
           M("_ROC_RPWM_FUNCTION", Ref("_ROC_RPWM_DISABLE", "")),
           M("_FSW_FSAMP_FREQ", Ref("_12kHz_SINGLE_ALL", "")),
           M("_OEW_FSW_FSAMP_FREQ", Ref("_OEW_12kHz_SINGLE_ALL", "")),
           M("_ODC_FSW_FSAMP_FREQ", Ref("_ODC_12kHz_SINGLE_ALL", "")),
           M("_MULTI_DC_METHOD_", Ref("_MULTI_INTEG", "")),
           M("_MULTI_NON_LINEAR_COMP", Ref("_LENEAR_COMP_ON", "")),
           M("_CUR_MAP_VERSION", Ref("_MV_PROTO_REAR_CUR_MAP", "")),
           M("_DELTA_TRQREF", Ref("_DELTA_TRQREF_4", ""))>>
    [] prj = "_ME_RWD_PROJ" /\ ph = "_SOP_VERSION" ->
         <<M("_MI_REF_SETTING", Ref("_MI_REF_103", "")),
           M("_12SMP_COND", Ref("_12SMP_OFF", "")),
           M("_RPWM_COND", Ref("_RPWM_01_03_ON", "")),
           M("_NO_LOAD_TQ_COMP_COND", Ref("NO_LOAD_TQ_COMP_OFF", "")),
           M("_SW_RDC_SETTING", Ref("_MV_EV_P1_REAR_SW_RDC", "")),
           M("_ROC_RPWM_FUNCTION", Ref("_ROC_RPWM_DISABLE", "")),
           M("_FSW_FSAMP_FREQ", Ref("_12kHz_SINGLE_ALL", "")),
           M("_OEW_FSW_FSAMP_FREQ", Ref("_OEW_12kHz_SINGLE_ALL", "")),
           M("_ODC_FSW_FSAMP_FREQ", Ref("_ODC_12kHz_SINGLE_ALL", "")),
           M("_MULTI_DC_METHOD_", Ref("_MULTI_INTEG", "")),
           M("_MULTI_NON_LINEAR_COMP", Ref("_LENEAR_COMP_ON", "")),
           M("_CUR_MAP_VERSION", Ref("_MV_PROTO_REAR_CUR_MAP", "")),
           M("_DELTA_TRQREF", Ref("_DELTA_TRQREF_4", ""))>>
    [] prj = "_ME_RWD_PROJ" /\ ph = "_RC_VERSION" ->
         <<M("_MI_REF_SETTING", Ref("_MI_REF_103", "")),
           M("_12SMP_COND", Ref("_12SMP_OFF", "")),
           M("_RPWM_COND", Ref("_RPWM_01_03_ON", "")),
           M("_NO_LOAD_TQ_COMP_COND", Ref("NO_LOAD_TQ_COMP_OFF", "")),
           M("_SW_RDC_SETTING", Ref("_MV_EV_P1_REAR_SW_RDC", "")),
           M("_ROC_RPWM_FUNCTION", Ref("_ROC_RPWM_DISABLE", "")),
           M("_FSW_FSAMP_FREQ", Ref("_12kHz_SINGLE_ALL", "")),
           M("_OEW_FSW_FSAMP_FREQ", Ref("_OEW_12kHz_SINGLE_ALL", "")),
           M("_ODC_FSW_FSAMP_FREQ", Ref("_ODC_12kHz_SINGLE_ALL", "")),
           M("_MULTI_DC_METHOD_", Ref("_MULTI_INTEG", "")),
           M("_MULTI_NON_LINEAR_COMP", Ref("_LENEAR_COMP_ON", "")),
           M("_CUR_MAP_VERSION", Ref("_MV_PROTO_REAR_CUR_MAP", "")),
           M("_DELTA_TRQREF", Ref("_DELTA_TRQREF_4", ""))>>
    [] OTHER -> <<>>

MarketSelectors(prj, ph, mkt) ==
    CASE prj = "_MV_RWD_PROJ" /\ ph = "_TCAR_VERSION" /\ mkt = "NA" ->
         <<M("_TQ_COMP_CAL_VERSION", Ref("_MV_EV_TCAR_REAR_TQ_COMP_CAL", ""))>>
    [] prj = "_MV_RWD_PROJ" /\ ph = "_TCAR_VERSION" /\ mkt = "NON_NA" ->
         <<M("_TQ_COMP_CAL_VERSION", Ref("_MV_EV_TCAR_REAR_TQ_COMP_CAL", ""))>>
    [] prj = "_MV_RWD_PROJ" /\ ph = "_PROTO_VERSION" /\ mkt = "NA" ->
         <<M("_TQ_COMP_CAL_VERSION", Ref("_MV_EV_PROTO_REAR_TQ_COMP_CAL", ""))>>
    [] prj = "_MV_RWD_PROJ" /\ ph = "_PROTO_VERSION" /\ mkt = "NON_NA" ->
         <<M("_TQ_COMP_CAL_VERSION", Ref("_MV_EV_PROTO_REAR_TQ_COMP_CAL", ""))>>
    [] prj = "_MV_RWD_PROJ" /\ ph = "_MASTER_VERSION" /\ mkt = "NA" ->
         <<M("_TQ_COMP_CAL_VERSION", Ref("_MV_EV_PROTO_REAR_TQ_COMP_CAL", ""))>>
    [] prj = "_MV_RWD_PROJ" /\ ph = "_MASTER_VERSION" /\ mkt = "NON_NA" ->
         <<M("_TQ_COMP_CAL_VERSION", Ref("_MV_EV_PROTO_REAR_TQ_COMP_CAL", ""))>>
    [] prj = "_MV_RWD_PROJ" /\ ph = "_PILOT_1_VERSION" /\ mkt = "NA" ->
         <<M("_TQ_COMP_CAL_VERSION", Ref("_MVa_EV_P1_REAR_TQ_COMP_CAL", ""))>>
    [] prj = "_MV_RWD_PROJ" /\ ph = "_PILOT_1_VERSION" /\ mkt = "NON_NA" ->
         <<M("_TQ_COMP_CAL_VERSION", Ref("_MV_EV_P1_REAR_TQ_COMP_CAL", ""))>>
    [] prj = "_MV_RWD_PROJ" /\ ph = "_PILOT_2_VERSION" /\ mkt = "NA" ->
         <<M("_TQ_COMP_CAL_VERSION", Ref("_MVa_EV_P1_REAR_TQ_COMP_CAL", ""))>>
    [] prj = "_MV_RWD_PROJ" /\ ph = "_PILOT_2_VERSION" /\ mkt = "NON_NA" ->
         <<M("_TQ_COMP_CAL_VERSION", Ref("_MV_EV_P1_REAR_TQ_COMP_CAL", ""))>>
    [] prj = "_MV_RWD_PROJ" /\ ph = "_M_VERSION" /\ mkt = "NA" ->
         <<M("_TQ_COMP_CAL_VERSION", Ref("_MVa_EV_P1_REAR_TQ_COMP_CAL", ""))>>
    [] prj = "_MV_RWD_PROJ" /\ ph = "_M_VERSION" /\ mkt = "NON_NA" ->
         <<M("_TQ_COMP_CAL_VERSION", Ref("_MV_EV_P1_REAR_TQ_COMP_CAL", ""))>>
    [] prj = "_MV_RWD_PROJ" /\ ph = "_SOP_VERSION" /\ mkt = "NA" ->
         <<M("_TQ_COMP_CAL_VERSION", Ref("_MVa_EV_P1_REAR_TQ_COMP_CAL", ""))>>
    [] prj = "_MV_RWD_PROJ" /\ ph = "_SOP_VERSION" /\ mkt = "NON_NA" ->
         <<M("_TQ_COMP_CAL_VERSION", Ref("_MV_EV_P1_REAR_TQ_COMP_CAL", ""))>>
    [] prj = "_MV_RWD_PROJ" /\ ph = "_RC_VERSION" /\ mkt = "NA" ->
         <<M("_TQ_COMP_CAL_VERSION", Ref("_MVa_EV_P1_REAR_TQ_COMP_CAL", ""))>>
    [] prj = "_MV_RWD_PROJ" /\ ph = "_RC_VERSION" /\ mkt = "NON_NA" ->
         <<M("_TQ_COMP_CAL_VERSION", Ref("_MV_EV_P1_REAR_TQ_COMP_CAL", ""))>>
    [] prj = "_ME_RWD_PROJ" /\ ph = "_TCAR_VERSION" /\ mkt = "NA" ->
         <<M("_TQ_COMP_CAL_VERSION", Ref("_MV_EV_PROTO_REAR_TQ_COMP_CAL", ""))>>
    [] prj = "_ME_RWD_PROJ" /\ ph = "_TCAR_VERSION" /\ mkt = "NON_NA" ->
         <<M("_TQ_COMP_CAL_VERSION", Ref("_MV_EV_PROTO_REAR_TQ_COMP_CAL", ""))>>
    [] prj = "_ME_RWD_PROJ" /\ ph = "_PROTO_VERSION" /\ mkt = "NA" ->
         <<M("_TQ_COMP_CAL_VERSION", Ref("_MVa_EV_P1_REAR_TQ_COMP_CAL", "")),
           M("_POWER_CAL_VERSION", Ref("_ME_EV_P2_REAR_160KW_POWER_CAL", "")),
           M("_MOTOR_TYPE", Ref("_ME_P1_REAR_MOTOR", ""))>>
    [] prj = "_ME_RWD_PROJ" /\ ph = "_PROTO_VERSION" /\ mkt = "NON_NA" ->
         <<M("_TQ_COMP_CAL_VERSION", Ref("_MV_EV_P1_REAR_TQ_COMP_CAL", "")),
           M("_POWER_CAL_VERSION", Ref("_MV_EV_PROTO_REAR_160KW_POWER_CAL", "")),
           M("_MOTOR_TYPE", Ref("_MV_PROTO_REAR_MOTOR", ""))>>
    [] prj = "_ME_RWD_PROJ" /\ ph = "_MASTER_VERSION" /\ mkt = "NA" ->
         <<M("_TQ_COMP_CAL_VERSION", Ref("_MVa_EV_P1_REAR_TQ_COMP_CAL", "")),
           M("_POWER_CAL_VERSION", Ref("_ME_EV_P2_REAR_160KW_POWER_CAL", "")),
           M("_MOTOR_TYPE", Ref("_ME_P1_REAR_MOTOR", ""))>>
    [] prj = "_ME_RWD_PROJ" /\ ph = "_MASTER_VERSION" /\ mkt = "NON_NA" ->
         <<M("_TQ_COMP_CAL_VERSION", Ref("_MV_EV_P1_REAR_TQ_COMP_CAL", "")),
           M("_POWER_CAL_VERSION", Ref("_MV_EV_PROTO_REAR_160KW_POWER_CAL", "")),
           M("_MOTOR_TYPE", Ref("_MV_PROTO_REAR_MOTOR", ""))>>
    [] prj = "_ME_RWD_PROJ" /\ ph = "_PILOT_1_VERSION" /\ mkt = "NA" ->
         <<M("_TQ_COMP_CAL_VERSION", Ref("_MVa_EV_P1_REAR_TQ_COMP_CAL", "")),
           M("_POWER_CAL_VERSION", Ref("_ME_EV_P2_REAR_160KW_POWER_CAL", "")),
           M("_MOTOR_TYPE", Ref("_ME_P1_REAR_MOTOR", ""))>>
    [] prj = "_ME_RWD_PROJ" /\ ph = "_PILOT_1_VERSION" /\ mkt = "NON_NA" ->
         <<M("_TQ_COMP_CAL_VERSION", Ref("_MV_EV_P1_REAR_TQ_COMP_CAL", "")),
           M("_POWER_CAL_VERSION", Ref("_MV_EV_PROTO_REAR_160KW_POWER_CAL", "")),
           M("_MOTOR_TYPE", Ref("_ME_P1_REAR_MOTOR", ""))>>
    [] prj = "_ME_RWD_PROJ" /\ ph = "_PILOT_2_VERSION" /\ mkt = "NA" ->
         <<M("_TQ_COMP_CAL_VERSION", Ref("_MVa_EV_P1_REAR_TQ_COMP_CAL", "")),
           M("_POWER_CAL_VERSION", Ref("_ME_EV_P2_REAR_160KW_POWER_CAL", "")),
           M("_MOTOR_TYPE", Ref("_ME_P1_REAR_MOTOR", ""))>>
    [] prj = "_ME_RWD_PROJ" /\ ph = "_PILOT_2_VERSION" /\ mkt = "NON_NA" ->
         <<M("_TQ_COMP_CAL_VERSION", Ref("_ME_EV_P2_REAR_TQ_COMP_CAL", "")),
           M("_POWER_CAL_VERSION", Ref("_ME_EV_P2_REAR_160KW_POWER_CAL", "")),
           M("_MOTOR_TYPE", Ref("_ME_P1_REAR_MOTOR", ""))>>
    [] prj = "_ME_RWD_PROJ" /\ ph = "_M_VERSION" /\ mkt = "NA" ->
         <<M("_TQ_COMP_CAL_VERSION", Ref("_MVa_EV_P1_REAR_TQ_COMP_CAL", "")),
           M("_POWER_CAL_VERSION", Ref("_ME_EV_P2_REAR_160KW_POWER_CAL", "")),
           M("_MOTOR_TYPE", Ref("_ME_P1_REAR_MOTOR", ""))>>
    [] prj = "_ME_RWD_PROJ" /\ ph = "_M_VERSION" /\ mkt = "NON_NA" ->
         <<M("_TQ_COMP_CAL_VERSION", Ref("_ME_EV_P2_REAR_TQ_COMP_CAL", "")),
           M("_POWER_CAL_VERSION", Ref("_ME_EV_P2_REAR_160KW_POWER_CAL", "")),
           M("_MOTOR_TYPE", Ref("_ME_P1_REAR_MOTOR", ""))>>
    [] prj = "_ME_RWD_PROJ" /\ ph = "_SOP_VERSION" /\ mkt = "NA" ->
         <<M("_TQ_COMP_CAL_VERSION", Ref("_MVa_EV_P1_REAR_TQ_COMP_CAL", "")),
           M("_POWER_CAL_VERSION", Ref("_ME_EV_P2_REAR_160KW_POWER_CAL", "")),
           M("_MOTOR_TYPE", Ref("_ME_P1_REAR_MOTOR", ""))>>
    [] prj = "_ME_RWD_PROJ" /\ ph = "_SOP_VERSION" /\ mkt = "NON_NA" ->
         <<M("_TQ_COMP_CAL_VERSION", Ref("_ME_EV_P2_REAR_TQ_COMP_CAL", "")),
           M("_POWER_CAL_VERSION", Ref("_ME_EV_P2_REAR_160KW_POWER_CAL", "")),
           M("_MOTOR_TYPE", Ref("_ME_P1_REAR_MOTOR", ""))>>
    [] prj = "_ME_RWD_PROJ" /\ ph = "_RC_VERSION" /\ mkt = "NA" ->
         <<M("_TQ_COMP_CAL_VERSION", Ref("_MVa_EV_P1_REAR_TQ_COMP_CAL", "")),
           M("_POWER_CAL_VERSION", Ref("_ME_EV_P2_REAR_160KW_POWER_CAL", "")),
           M("_MOTOR_TYPE", Ref("_ME_P1_REAR_MOTOR", ""))>>
    [] prj = "_ME_RWD_PROJ" /\ ph = "_RC_VERSION" /\ mkt = "NON_NA" ->
         <<M("_TQ_COMP_CAL_VERSION", Ref("_ME_EV_P2_REAR_TQ_COMP_CAL", "")),
           M("_POWER_CAL_VERSION", Ref("_ME_EV_P2_REAR_160KW_POWER_CAL", "")),
           M("_MOTOR_TYPE", Ref("_ME_P1_REAR_MOTOR", ""))>>
    [] OTHER -> <<>>

GateIcBranch(v) ==
    CASE v = "_GATE_IC_TYPE_1" ->
         <<M("BSWCFGPWM_MOT_INV1_MIN_WIDTH", Lit(1, 0)),
           M("BSWCFGPWM_MOT_INV2_MIN_WIDTH", Lit(1, 0)),
           M("BSWCFGPWM_MOT_ASAC_EDGE_OFFSET", Lit(0, 0)),
           M("BSWCFGPWM_HSG_INV1_MIN_WIDTH", Lit(1, 0)),
           M("BSWCFGPWM_HSG_INV2_MIN_WIDTH", Lit(1, 0)),
           M("BSWCFGPWM_HSG_ASAC_EDGE_OFFSET", Lit(0, 0))>>
    [] v = "_GATE_IC_TYPE_2" ->
         <<M("BSWCFGPWM_MOT_INV1_MIN_WIDTH", Lit(3000, 0)),
           M("BSWCFGPWM_MOT_INV2_MIN_WIDTH", Lit(3000, 0)),
           M("BSWCFGPWM_MOT_ASAC_EDGE_OFFSET", Lit(3000, 0)),
           M("BSWCFGPWM_HSG_INV1_MIN_WIDTH", Lit(3000, 0)),
           M("BSWCFGPWM_HSG_INV2_MIN_WIDTH", Lit(3000, 0)),
           M("BSWCFGPWM_HSG_ASAC_EDGE_OFFSET", Lit(3000, 0))>>
    [] v = "_GATE_IC_TYPE_3" ->
         <<M("BSWCFGPWM_MOT_INV1_MIN_WIDTH", Lit(3000, 0)),
           M("BSWCFGPWM_MOT_INV2_MIN_WIDTH", Lit(3000, 0)),
           M("BSWCFGPWM_MOT_ASAC_EDGE_OFFSET", Lit(0, 0)),
           M("BSWCFGPWM_HSG_INV1_MIN_WIDTH", Lit(3000, 0)),
           M("BSWCFGPWM_HSG_INV2_MIN_WIDTH", Lit(3000, 0)),
           M("BSWCFGPWM_HSG_ASAC_EDGE_OFFSET", Lit(0, 0))>>
    [] v = "_GATE_IC_TYPE_4" ->
         <<M("BSWCFGPWM_MOT_INV1_MIN_WIDTH", Lit(3000, 0)),
           M("BSWCFGPWM_MOT_INV2_MIN_WIDTH", Lit(3000, 0)),
           M("BSWCFGPWM_MOT_ASAC_EDGE_OFFSET", Lit(3000, 0)),
           M("BSWCFGPWM_HSG_INV1_MIN_WIDTH", Lit(3000, 0)),
           M("BSWCFGPWM_HSG_INV2_MIN_WIDTH", Lit(3000, 0)),
           M("BSWCFGPWM_HSG_ASAC_EDGE_OFFSET", Lit(3000, 0))>>
    [] v = "_GATE_IC_TYPE_5" ->
         <<M("BSWCFGPWM_MOT_INV1_MIN_WIDTH", Lit(4000, 0)),
           M("BSWCFGPWM_MOT_INV2_MIN_WIDTH", Lit(4000, 0)),
           M("BSWCFGPWM_MOT_ASAC_EDGE_OFFSET", Lit(0, 0)),
           M("BSWCFGPWM_HSG_INV1_MIN_WIDTH", Lit(3000, 0)),
           M("BSWCFGPWM_HSG_INV2_MIN_WIDTH", Lit(3000, 0)),
           M("BSWCFGPWM_HSG_ASAC_EDGE_OFFSET", Lit(0, 0))>>
    [] v = "_GATE_IC_TYPE_6" ->
         <<M("BSWCFGPWM_MOT_INV1_MIN_WIDTH", Lit(3000, 0)),
           M("BSWCFGPWM_MOT_INV2_MIN_WIDTH", Lit(3000, 0)),
           M("BSWCFGPWM_MOT_ASAC_EDGE_OFFSET", Lit(2600, 0)),
           M("BSWCFGPWM_HSG_INV1_MIN_WIDTH", Lit(3000, 0)),
           M("BSWCFGPWM_HSG_INV2_MIN_WIDTH", Lit(3000, 0)),
           M("BSWCFGPWM_HSG_ASAC_EDGE_OFFSET", Lit(0, 0))>>
    [] v = "_GATE_IC_TYPE_7" ->
         <<M("BSWCFGPWM_MOT_INV1_MIN_WIDTH", Lit(300, 0)),
           M("BSWCFGPWM_MOT_INV2_MIN_WIDTH", Lit(300, 0)),
           M("BSWCFGPWM_MOT_ASAC_EDGE_OFFSET", Lit(390, 0)),
           M("BSWCFGPWM_HSG_INV1_MIN_WIDTH", Lit(300, 0)),
           M("BSWCFGPWM_HSG_INV2_MIN_WIDTH", Lit(300, 0)),
           M("BSWCFGPWM_HSG_ASAC_EDGE_OFFSET", Lit(390, 0))>>
    [] v = "_GATE_IC_TYPE_8_NV74_TCAR" ->
         <<M("BSWCFGPWM_MOT_INV1_MIN_WIDTH", Lit(3000, 0)),
           M("BSWCFGPWM_MOT_INV2_MIN_WIDTH", Lit(3000, 0)),
           M("BSWCFGPWM_MOT_ASAC_EDGE_OFFSET", Lit(390, 0)),
           M("BSWCFGPWM_HSG_INV1_MIN_WIDTH", Lit(300, 0)),
           M("BSWCFGPWM_HSG_INV2_MIN_WIDTH", Lit(300, 0)),
           M("BSWCFGPWM_HSG_ASAC_EDGE_OFFSET", Lit(390, 0))>>
    [] OTHER -> <<>>

PowerModuleBranch(v) ==
    CASE v = "_PM_CASE_TYPE" ->
         <<M("BSWCFGPWM_MOT_INV1_DEADTIME", Lit(2200, 0)),
           M("BSWCFGPWM_MOT_INV2_DEADTIME", Lit(2200, 0)),
           M("BSWCFGPWM_MOT_DEADTIME_MULTI", Lit(2200, 0)),
           M("BSWCFGPWM_HSG_INV1_DEADTIME", Lit(2200, 0)),
           M("BSWCFGPWM_HSG_INV2_DEADTIME", Lit(2200, 0))>>
    [] v = "_PM_DSC_TYPE_1" ->
         <<M("BSWCFGPWM_MOT_INV1_DEADTIME", Lit(2500, 0)),
           M("BSWCFGPWM_MOT_INV2_DEADTIME", Lit(2500, 0)),
           M("BSWCFGPWM_MOT_DEADTIME_MULTI", Lit(2500, 0)),
           M("BSWCFGPWM_HSG_INV1_DEADTIME", Lit(2500, 0)),
           M("BSWCFGPWM_HSG_INV2_DEADTIME", Lit(2500, 0))>>
    [] v = "_PM_DSC_TYPE_2" ->
         <<M("BSWCFGPWM_MOT_INV1_DEADTIME", Lit(4000, 0)),
           M("BSWCFGPWM_MOT_INV2_DEADTIME", Lit(4000, 0)),
           M("BSWCFGPWM_MOT_DEADTIME_MULTI", Lit(4000, 0)),
           M("BSWCFGPWM_HSG_INV1_DEADTIME", Lit(4000, 0)),
           M("BSWCFGPWM_HSG_INV2_DEADTIME", Lit(4000, 0))>>
    [] v = "_PM_HP_DRIVE_TYPE" ->
         <<M("BSWCFGPWM_MOT_INV1_DEADTIME", Lit(2000, 0)),
           M("BSWCFGPWM_MOT_INV2_DEADTIME", Lit(2000, 0)),
           M("BSWCFGPWM_MOT_DEADTIME_MULTI", Lit(4000, 0)),
           M("BSWCFGPWM_HSG_INV1_DEADTIME", Lit(2000, 0)),
           M("BSWCFGPWM_HSG_INV2_DEADTIME", Lit(2000, 0))>>
    [] v = "_PM_CVeGT_TYPE" ->
         <<M("BSWCFGPWM_MOT_INV1_DEADTIME", Lit(2000, 0)),
           M("BSWCFGPWM_MOT_INV2_DEADTIME", Lit(4000, 0)),
           M("BSWCFGPWM_MOT_DEADTIME_MULTI", Lit(4000, 0)),
           M("BSWCFGPWM_HSG_INV1_DEADTIME", Lit(2000, 0)),
           M("BSWCFGPWM_HSG_INV2_DEADTIME", Lit(2000, 0))>>
    [] v = "_PM_NV74_TYPE" ->
         <<M("BSWCFGPWM_MOT_INV1_DEADTIME", Lit(2000, 0)),
           M("BSWCFGPWM_MOT_INV2_DEADTIME", Lit(4000, 0)),
           M("BSWCFGPWM_MOT_DEADTIME_MULTI", Lit(4000, 0)),
           M("BSWCFGPWM_HSG_INV1_DEADTIME", Lit(2000, 0)),
           M("BSWCFGPWM_HSG_INV2_DEADTIME", Lit(2000, 0))>>
    [] v = "_PM_MV_TYPE" ->
         <<M("BSWCFGPWM_MOT_INV1_DEADTIME", Lit(2000, 0)),
           M("BSWCFGPWM_MOT_INV2_DEADTIME", Lit(4000, 0)),
           M("BSWCFGPWM_MOT_DEADTIME_MULTI", Lit(2000, 0)),
           M("BSWCFGPWM_HSG_INV1_DEADTIME", Lit(2000, 0)),
           M("BSWCFGPWM_HSG_INV2_DEADTIME", Lit(2000, 0))>>
    [] OTHER -> <<>>

CurSensorBranch(v) ==
    CASE v = "_MOT_400A_SCALE_HALL" ->
         <<M("CUR_SENSOR_RANGE_MOT", Lit(400, 0))>>
    [] v = "_MOT_400A_SCALE_SHUNT_TYPE1" ->
         <<M("CUR_SENSOR_RANGE_MOT", Lit(400, 0))>>
    [] v = "_MOT_500A_SCALE_SHUNT_TYPE1" ->
         <<M("CUR_SENSOR_RANGE_MOT", Lit(500, 0))>>
    [] v = "_MOT_600A_SCALE_SHUNT_TYPE1" ->
         <<M("CUR_SENSOR_RANGE_MOT", Lit(5882353, -4))>>
    [] v = "_MOT_400A_SCALE_SHUNT_TYPE2" ->
         <<M("CUR_SENSOR_RANGE_MOT", Lit(3942829, -4))>>
    [] v = "_MOT_500A_SCALE_HALL" ->
         <<M("CUR_SENSOR_RANGE_MOT", Lit(500, 0))>>
    [] v = "_MOT_700A_SCALE_HALL" ->
         <<M("CUR_SENSOR_RANGE_MOT", Lit(700, 0))>>
    [] v = "_MOT_700A_SCALE_SHUNT_0" ->
         <<M("CUR_SENSOR_RANGE_MOT", Lit(700, 0))>>
    [] v = "_MOT_850A_SCALE_HALL" ->
         <<M("CUR_SENSOR_RANGE_MOT", Lit(850, 0))>>
    [] v = "_MOT_850A_SCALE_HALL_FOR_HPV" ->
         <<M("CUR_SENSOR_RANGE_MOT", Lit(850, 0))>>
    [] v = "_MOT_1000A_SCALE_HALL" ->
         <<M("CUR_SENSOR_RANGE_MOT", Lit(1000, 0))>>
    [] v = "_MOT_1300A_SCALE_HALL" ->
         <<M("CUR_SENSOR_RANGE_MOT", Lit(1300, 0))>>
    [] v = "_MOT_1100A_SCALE_HALL" ->
         <<M("CUR_SENSOR_RANGE_MOT", Lit(1100, 0))>>
    [] v = "_MOT_1500A_SCALE_HALL" ->
         <<M("CUR_SENSOR_RANGE_MOT", Lit(1500, 0))>>
    [] v = "_MOT_700A_SCALE_CORELESS" ->
         <<M("CUR_SENSOR_RANGE_MOT", Lit(8333333, -4))>>
    [] v = "_MOT_700A_SCALE_CORELESS_TYPE2" ->
         <<M("CUR_SENSOR_RANGE_MOT", Lit(9095043, -4))>>
    [] v = "_MOT_650A_SCALE_CORELESS_TYPE" ->
         <<M("CUR_SENSOR_RANGE_MOT", Lit(6820567, -4))>>
    [] OTHER -> <<>>

EtpuOptionBranch(v) ==
    CASE v = "_SINGLE_STAGE_SYSTEM" ->
         <<M("BSWCFGPWM_MOT_INV1_UPDATE_TIME", Lit(3800, 0)),
           M("BSWCFGPWM_MOT_INV2_UPDATE_TIME", Lit(3000, 0)),
           M("BSWCFGPWM_MOT_eTPULoad_SYNC", Lit(500, 0)),
           M("BSWCFGPWM_MOT_eTPULoad_RSLV", Lit(3500, 0)),
           M("BSWCFGPWM_MOT_eTPULoad_PWM", Lit(9500, 0)),
           M("BSWCFGPWM_HSG_INV1_UPDATE_TIME", Lit(3800, 0)),
           M("BSWCFGPWM_HSG_INV2_UPDATE_TIME", Lit(3000, 0)),
           M("BSWCFGPWM_HSG_eTPULoad_SYNC", Lit(0, 0)),
           M("BSWCFGPWM_HSG_eTPULoad_RSLV", Lit(3500, 0)),
           M("BSWCFGPWM_HSG_eTPULoad_PWM", Lit(9500, 0))>>
    [] v = "_TWO_STAGE_SYSTEM" ->
         <<M("BSWCFGPWM_MOT_INV1_UPDATE_TIME", Lit(3800, 0)),
           M("BSWCFGPWM_MOT_INV2_UPDATE_TIME", Lit(3000, 0)),
           M("BSWCFGPWM_MOT_eTPULoad_SYNC", Lit(500, 0)),
           M("BSWCFGPWM_MOT_eTPULoad_RSLV", Lit(3500, 0)),
           M("BSWCFGPWM_MOT_eTPULoad_PWM", Lit(9500, 0)),
           M("BSWCFGPWM_HSG_INV1_UPDATE_TIME", Lit(3800, 0)),
           M("BSWCFGPWM_HSG_INV2_UPDATE_TIME", Lit(3000, 0)),
           M("BSWCFGPWM_HSG_eTPULoad_SYNC", Lit(0, 0)),
           M("BSWCFGPWM_HSG_eTPULoad_RSLV", Lit(3500, 0)),
           M("BSWCFGPWM_HSG_eTPULoad_PWM", Lit(9500, 0))>>
    [] OTHER -> <<>>

UpdateTimeModeBranch(v) ==
    CASE v = "_UPDATETIME_AUTO" ->
         <<M("BSWCFGPWM_MOT_UPDATETIME_AUTO_MODE", Ref("SET_FLAG", "")),
           M("BSWCFGPWM_HSG_UPDATETIME_AUTO_MODE", Ref("SET_FLAG", ""))>>
    [] v = "_UPDATETIME_MANUAL" ->
         <<M("BSWCFGPWM_MOT_UPDATETIME_AUTO_MODE", Ref("CLR_FLAG", "")),
           M("BSWCFGPWM_HSG_UPDATETIME_AUTO_MODE", Ref("CLR_FLAG", ""))>>
    [] OTHER -> <<>>

Declarations(f, part) ==
    CASE f = "BswCfgPwm.h" /\ part = 3 ->
         <<X("BswCfgCal_Pwm_MotStartTime", "UINT32", TRUE, <<>>),
         X("BswCfgCal_Pwm_MotPeriod", "UINT32", TRUE, <<>>),
         X("BswCfgCal_Pwm_MotDeadTime_INV1", "UINT32", TRUE, <<>>),
         X("BswCfgCal_Pwm_MotDeadTime_INV2", "UINT32", TRUE, <<>>),
         X("BswCfgCal_Pwm_MotDeadTime_Multi", "UINT32", TRUE, <<>>),
         X("BswCfgCal_Pwm_MotMinPulseWidth_INV1", "UINT32", TRUE, <<>>),
         X("BswCfgCal_Pwm_MotMinPulseWidth_INV2", "UINT32", TRUE, <<>>),
         X("BswCfgCal_Pwm_MotUpdateTime_INV1", "UINT32", TRUE, <<>>),
         X("BswCfgCal_Pwm_MotUpdateTime_INV2", "UINT32", TRUE, <<>>),
         X("BswCfgCal_Pwm_MotPwmMode", "UINT8", TRUE, <<>>),
         X("BswCfgCal_Pwm_MotAsacEdgeOffset", "UINT32", TRUE, <<>>),
         X("BswCfgCal_Pwm_MotUpdatetime_AutoMode", "UINT8", TRUE, <<>>),
         X("BswCfgCal_Pwm_MoteTPULoad_SYNC", "UINT32", TRUE, <<>>),
         X("BswCfgCal_Pwm_MoteTPULoad_RSLV", "UINT32", TRUE, <<>>),
         X("BswCfgCal_Pwm_MoteTPULoad_PWM", "UINT32", TRUE, <<>>),
         X("BswCfgCal_Pwm_HsgStartTime", "UINT32", TRUE, <<>>),
         X("BswCfgCal_Pwm_HsgPeriod", "UINT32", TRUE, <<>>),
         X("BswCfgCal_Pwm_HsgDeadTime_INV1", "UINT32", TRUE, <<>>),
         X("BswCfgCal_Pwm_HsgDeadTime_INV2", "UINT32", TRUE, <<>>),
         X("BswCfgCal_Pwm_HsgMinPulseWidth_INV1", "UINT32", TRUE, <<>>),
         X("BswCfgCal_Pwm_HsgMinPulseWidth_INV2", "UINT32", TRUE, <<>>),
         X("BswCfgCal_Pwm_HsgUpdateTime_INV1", "UINT32", TRUE, <<>>),
         X("BswCfgCal_Pwm_HsgUpdateTime_INV2", "UINT32", TRUE, <<>>),
         X("BswCfgCal_Pwm_HsgPwmMode", "UINT8", TRUE, <<>>),
         X("BswCfgCal_Pwm_HsgAsacEdgeOffset", "UINT32", TRUE, <<>>),
         X("BswCfgCal_Pwm_HsgUpdatetime_AutoMode", "UINT8", TRUE, <<>>),
         X("BswCfgCal_Pwm_HsgeTPULoad_SYNC", "UINT32", TRUE, <<>>),
         X("BswCfgCal_Pwm_HsgeTPULoad_RSLV", "UINT32", TRUE, <<>>),
         X("BswCfgCal_Pwm_HsgeTPULoad_PWM", "UINT32", TRUE, <<>>)>>
      [] f = "BswCfgPwm.h" /\ part = 4 ->
         <<X("BswCfgVal_Pwm_MotUpdateTime_INV1", "UINT32", FALSE, <<>>),
         X("BswCfgVal_Pwm_MotUpdateTime_INV2", "UINT32", FALSE, <<>>),
         X("BswCfgVal_Pwm_HsgUpdateTime_INV1", "UINT32", FALSE, <<>>),
         X("BswCfgVal_Pwm_HsgUpdateTime_INV2", "UINT32", FALSE, <<>>)>>
      [] f = "BswCfgRdc.h" /\ part = 1 ->
         <<X("BswCfgCal_Rdc_MotPeriod", "UINT32", TRUE, <<>>),
         X("BswCfgCal_Rdc_MotStartOffset", "FLOAT32", TRUE, <<>>),
         X("BswCfgCal_Rdc_MotK1", "FLOAT32", TRUE, <<>>),
         X("BswCfgCal_Rdc_MotK2", "FLOAT32", TRUE, <<>>),
         X("BswCfgCal_Rdc_MotK1Scale", "INT32", TRUE, <<>>),
         X("BswCfgCal_Rdc_MotK2Scale", "INT32", TRUE, <<>>),
         X("BswCfgCal_Rdc_MotSinDcOffset", "UINT32", TRUE, <<>>),
         X("BswCfgCal_Rdc_MotCosDcOffset", "UINT32", TRUE, <<>>),
         X("BswCfgCal_Rdc_MotSinScale", "INT32", TRUE, <<>>),
         X("BswCfgCal_Rdc_MotCosScale", "INT32", TRUE, <<>>),
         X("BswCfgCal_Rdc_MotUnitrigDelay", "UINT32", TRUE, <<>>),
         X("BswCfgCal_Rdc_MotUnitrigStartOffset", "UINT32", TRUE, <<>>),
         X("BswCfgCal_Rdc_HsgPeriod", "UINT32", TRUE, <<>>),
         X("BswCfgCal_Rdc_HsgStartOffset", "FLOAT32", TRUE, <<>>),
         X("BswCfgCal_Rdc_HsgK1", "FLOAT32", TRUE, <<>>),
         X("BswCfgCal_Rdc_HsgK2", "FLOAT32", TRUE, <<>>),
         X("BswCfgCal_Rdc_HsgK1Scale", "INT32", TRUE, <<>>),
         X("BswCfgCal_Rdc_HsgK2Scale", "INT32", TRUE, <<>>),
         X("BswCfgCal_Rdc_HsgSinDcOffset", "UINT32", TRUE, <<>>),
         X("BswCfgCal_Rdc_HsgCosDcOffset", "UINT32", TRUE, <<>>),
         X("BswCfgCal_Rdc_HsgSinScale", "INT32", TRUE, <<>>),
         X("BswCfgCal_Rdc_HsgCosScale", "INT32", TRUE, <<>>),
         X("BswCfgCal_Rdc_HsgUnitrigDelay", "UINT32", TRUE, <<>>),
         X("BswCfgCal_Rdc_HsgUnitrigStartOffset", "UINT32", TRUE, <<>>)>>
      [] f = "CcCalBase.h" /\ part = 1 ->
         <<X("BswCfgCal_Rsv_DefaultOffset", "FLOAT32", TRUE, <<"TOTAL_TARGET">>),
         X("BswCfgCal_Rsv_RotDir", "UINT16", TRUE, <<"TOTAL_TARGET">>)>>
      [] f = "CcCalBase.h" /\ part = 2 ->
         <<X("TestCal_VnCtrl_Enb", "BOOL", TRUE, <<>>)>>
      [] f = "CcCalBase.h" /\ part = 3 ->
         <<X("CcCal_Motor_frated", "FLOAT32", TRUE, <<"TOTAL_TARGET">>),
         X("CcCal_SWRDC_GainUpdateCal", "UINT8", TRUE, <<"TOTAL_TARGET">>),
         X("CcCal_SWRDC_GainUpdate_K1D", "signed long", TRUE, <<"TOTAL_TARGET">>),
         X("CcCal_SWRDC_GainUpdate_K1SCALE", "signed long", TRUE, <<"TOTAL_TARGET">>),
         X("CcCal_SWRDC_GainUpdate_K2D", "signed long", TRUE, <<"TOTAL_TARGET">>),
         X("CcCal_SWRDC_GainUpdate_K2SCALE", "signed long", TRUE, <<"TOTAL_TARGET">>),
         X("CcCal_SWRDC_GainUpdate_NaturalFreq", "INT32", TRUE, <<"TOTAL_TARGET">>),
         X("CcCal_SWRDC_GainUpdate_DampFac", "FLOAT32", TRUE, <<"TOTAL_TARGET">>),
         X("CcCal_ToggleEnb", "UINT16", TRUE, <<"TOTAL_TARGET">>),
         X("CcCal_Fsamp_High_Limit", "FLOAT32", TRUE, <<"TOTAL_TARGET">>),
         X("CcCal_Motor_Ld", "FLOAT32", TRUE, <<"TOTAL_TARGET">>),
         X("CcCal_Motor_Lq", "FLOAT32", TRUE, <<"TOTAL_TARGET">>),
         X("CcCal_Motor_Llk", "FLOAT32", TRUE, <<"TOTAL_TARGET">>),
         X("CcCal_DaxisCurCtrlBW", "FLOAT32", TRUE, <<"TOTAL_TARGET">>),
         X("CcCal_QaxisCurCtrlBW", "FLOAT32", TRUE, <<"TOTAL_TARGET">>),
         X("CcCal_NaxisCurCtrlBW", "FLOAT32", TRUE, <<"TOTAL_TARGET">>),
         X("CcCal_PaxisCurCtrlBW", "FLOAT32", TRUE, <<"TOTAL_TARGET">>),
         X("CcCal_SWRDC_Speed_Override", "UINT16", TRUE, <<"TOTAL_TARGET">>),
         X("L1", "FLOAT32", TRUE, <<>>),
         X("L2", "FLOAT32", TRUE, <<>>),
         X("L3", "FLOAT32", TRUE, <<>>),
         X("CcCal_Cur_lag", "FLOAT32", TRUE, <<"TOTAL_TARGET">>),
         X("FSW_TAB", "FLOAT32", TRUE, <<"TOTAL_TARGET", "VARIABLE_FSW_TAB_OUT_SIZE">>),
         X("HSG_VAR_HOVMGAIN_TAB", "FLOAT32", TRUE, <<"VARIABLE_HOVM_TAB_ROW_SIZE", "VARIABLE_HOVM_TAB_COL_SIZE">>),
         X("MAGINJ_TAB", "FLOAT32", TRUE, <<"TOTAL_TARGET", "VARIABLE_FSW_TAB_OUT_SIZE">>),
         X("CcCal_BETC_SetFlag", "UINT8", TRUE, <<"TOTAL_TARGET">>),
         X("CcCal_BETC_CoeffLAMpm_Tmp", "FLOAT32", TRUE, <<"TOTAL_TARGET">>),
         X("CcCal_BETC_LAMpmAt90MAP", "FLOAT32", TRUE, <<"TOTAL_TARGET">>),
         X("CcCal_BETC_EndCnt", "UINT32", TRUE, <<"TOTAL_TARGET">>),
         X("CcCal_BETC_DeltaTmpComp_Lmt", "FLOAT32", TRUE, <<"TOTAL_TARGET">>),
         X("CcCal_DeadTimeCompEnb", "UINT8", TRUE, <<"TOTAL_TARGET">>),
         X("CcCal_DeadTimeComp_INVIcompZCC_INV1", "FLOAT32", FALSE, <<"TOTAL_TARGET">>),
         X("CcCal_DeadTimeComp_INVIcompZCC_INV2", "FLOAT32", FALSE, <<"TOTAL_TARGET">>),
         X("CcCal_DeadTimeComp_TdeadComp_INV1", "FLOAT32", TRUE, <<"TOTAL_TARGET">>),
         X("CcCal_DeadTimeComp_TdeadComp_INV2", "FLOAT32", TRUE, <<"TOTAL_TARGET">>),
         X("CcCal_DeadTimeComp_IcompZCC_INV1", "FLOAT32", TRUE, <<"TOTAL_TARGET">>),
         X("CcCal_DeadTimeComp_IcompZCC_INV2", "FLOAT32", TRUE, <<"TOTAL_TARGET">>),
         X("CcCal_CurA_InitialOffset", "INT16", TRUE, <<"TOTAL_TARGET">>),
         X("CcCal_CurB_InitialOffset", "INT16", TRUE, <<"TOTAL_TARGET">>),
         X("CcCal_CurC_InitialOffset", "INT16", TRUE, <<"TOTAL_TARGET">>),
         X("CcCal_Cur_ScaleFactor", "FLOAT32", TRUE, <<"TOTAL_TARGET">>),
         X("CcCal_HvBatt_InitialOffset", "UINT16", TRUE, <<"TOTAL_TARGET">>),
         X("CcCal_HvBatt_ScaleFactor", "FLOAT32", TRUE, <<"TOTAL_TARGET">>),
         X("CcCal_OffsetValidityChk_ZeroCurOverride", "UINT8", TRUE, <<"TOTAL_TARGET">>),
         X("CcCal_LvAdToPhyOffset", "FLOAT32", TRUE, <<"TOTAL_TARGET">>),
         X("CcCal_LvAdToPhySclFct", "FLOAT32", TRUE, <<"TOTAL_TARGET">>)>>
      [] f = "CcCalBase.h" /\ part = 5 ->
         <<X("CcCal_VarDTGS_MotTqLvl1_Max_HysIn", "FLOAT32", TRUE, <<"TOTAL_TARGET">>),
         X("CcCal_VarDTGS_MotTqLvl1_Min_HysIn", "FLOAT32", TRUE, <<"TOTAL_TARGET">>),
         X("CcCal_VarDTGS_MotSpdLvl1_Max_HysIn", "FLOAT32", TRUE, <<"TOTAL_TARGET">>),
         X("CcCal_VarDTGS_MotSpdLvl1_Min_HysIn", "FLOAT32", TRUE, <<"TOTAL_TARGET">>),
         X("CcCal_VarDTGS_MotTqLvl1_Max_HysOut", "FLOAT32", TRUE, <<"TOTAL_TARGET">>),
         X("CcCal_VarDTGS_MotTqLvl1_Min_HysOut", "FLOAT32", TRUE, <<"TOTAL_TARGET">>),
         X("CcCal_VarDTGS_MotSpdLvl1_Max_HysOut", "FLOAT32", TRUE, <<"TOTAL_TARGET">>),
         X("CcCal_VarDTGS_MotSpdLvl1_Min_HysOut", "FLOAT32", TRUE, <<"TOTAL_TARGET">>),
         X("CcCal_VarDTGS_MotTqLvl2_Max_HysIn", "FLOAT32", TRUE, <<"TOTAL_TARGET">>),
         X("CcCal_VarDTGS_MotTqLvl2_Min_HysIn", "FLOAT32", TRUE, <<"TOTAL_TARGET">>),
         X("CcCal_VarDTGS_MotSpdLvl2_Max_HysIn", "FLOAT32", TRUE, <<"TOTAL_TARGET">>),
         X("CcCal_VarDTGS_MotSpdLvl2_Min_HysIn", "FLOAT32", TRUE, <<"TOTAL_TARGET">>),
         X("CcCal_VarDTGS_MotTqLvl2_Max_HysOut", "FLOAT32", TRUE, <<"TOTAL_TARGET">>),
         X("CcCal_VarDTGS_MotTqLvl2_Min_HysOut", "FLOAT32", TRUE, <<"TOTAL_TARGET">>),
         X("CcCal_VarDTGS_MotSpdLvl2_Max_HysOut", "FLOAT32", TRUE, <<"TOTAL_TARGET">>),
         X("CcCal_VarDTGS_MotSpdLvl2_Min_HysOut", "FLOAT32", TRUE, <<"TOTAL_TARGET">>),
         X("CcCal_VarDTGS_MotTqLvl3_Max_HysIn", "FLOAT32", TRUE, <<"TOTAL_TARGET">>),
         X("CcCal_VarDTGS_MotTqLvl3_Min_HysIn", "FLOAT32", TRUE, <<"TOTAL_TARGET">>),
         X("CcCal_VarDTGS_MotSpdLvl3_Max_HysIn", "FLOAT32", TRUE, <<"TOTAL_TARGET">>),
         X("CcCal_VarDTGS_MotSpdLvl3_Min_HysIn", "FLOAT32", TRUE, <<"TOTAL_TARGET">>),
         X("CcCal_VarDTGS_MotTqLvl3_Max_HysOut", "FLOAT32", TRUE, <<"TOTAL_TARGET">>),
         X("CcCal_VarDTGS_MotTqLvl3_Min_HysOut", "FLOAT32", TRUE, <<"TOTAL_TARGET">>),
         X("CcCal_VarDTGS_MotSpdLvl3_Max_HysOut", "FLOAT32", TRUE, <<"TOTAL_TARGET">>),
         X("CcCal_VarDTGS_MotSpdLvl3_Min_HysOut", "FLOAT32", TRUE, <<"TOTAL_TARGET">>)>>
      [] OTHER -> <<>>

FeatureDeclarations(axis, v) ==
    CASE axis = "_SA_2STAGE_PWM_MODE" /\ v = "_2STG_SVPWM" ->
         <<X("TestCal_RSPWM_Enb", "BOOL", TRUE, <<>>)>>
      [] axis = "_SA_2STAGE_PWM_MODE" /\ v = "_2STG_RSPWM" ->
         <<X("TestCal_RSPWM_Enb", "BOOL", TRUE, <<>>)>>
      [] axis = "_SA_SQPWM_REGEN_DIS" /\ v = "_SQPWM_REGEN_ENB" ->
         <<X("CcCal_SQPWM_Mode_Regen_Disable", "UINT8", TRUE, <<"TOTAL_TARGET">>)>>
      [] axis = "_SA_SQPWM_REGEN_DIS" /\ v = "_SQPWM_REGEN_DIS" ->
         <<X("CcCal_SQPWM_Mode_Regen_Disable", "UINT8", TRUE, <<"TOTAL_TARGET">>)>>
      [] axis = "_PWM_BURST_MODE" /\ v = "_BURST_MODE_ENABLE" ->
         <<X("CcCal_PwmOff_MotTqLvl_Max", "FLOAT32", TRUE, <<"TOTAL_TARGET">>),
         X("CcCal_PwmOff_MotTqLvl_Min", "FLOAT32", TRUE, <<"TOTAL_TARGET">>),
         X("CcCal_PwmOn_MotTqLvl_Max", "FLOAT32", TRUE, <<"TOTAL_TARGET">>),
         X("CcCal_PwmOn_MotTqLvl_Min", "FLOAT32", TRUE, <<"TOTAL_TARGET">>),
         X("CcCal_PwmOff_WaitTime", "UINT32", TRUE, <<"TOTAL_TARGET">>)>>
      [] axis = "_PWM_BURST_MODE" /\ v = "_BURST_MODE_DISABLE" ->
         <<X("CcCal_PwmOff_MotTqLvl_Max", "FLOAT32", TRUE, <<"TOTAL_TARGET">>),
         X("CcCal_PwmOff_MotTqLvl_Min", "FLOAT32", TRUE, <<"TOTAL_TARGET">>),
         X("CcCal_PwmOn_MotTqLvl_Max", "FLOAT32", TRUE, <<"TOTAL_TARGET">>),
         X("CcCal_PwmOn_MotTqLvl_Min", "FLOAT32", TRUE, <<"TOTAL_TARGET">>),
         X("CcCal_PwmOff_WaitTime", "UINT32", TRUE, <<"TOTAL_TARGET">>)>>
      [] axis = "_VAR_DTGS_OPTION" /\ v = "_VAR_DTGS_OPTION_INCLUDED" ->
         <<X("CcCal_VarDTGS_Enb", "UINT8", TRUE, <<"TOTAL_TARGET">>)>>
      [] axis = "_VAR_DTGS_OPTION" /\ v = "_VAR_DTGS_OPTION_NOT_INCLUDED" ->
         <<X("CcCal_VarDTGS_Enb", "UINT8", TRUE, <<"TOTAL_TARGET">>)>>
      [] OTHER -> <<>>

Definitions(f, part) ==
    CASE f = "BswCfgPwm.c" /\ part = 1 ->
         <<D("BswCfgCal_Pwm_MotStartTime", "UINT32", TRUE, <<>>,
       <<Ref("BSWCFGPWM_MOT_START", "MOT")>>),
         D("BswCfgCal_Pwm_MotPeriod", "UINT32", TRUE, <<>>,
       <<Ref("BSWCFGPWM_MOT_PERIOD", "MOT")>>),
         D("BswCfgCal_Pwm_MotDeadTime_INV1", "UINT32", TRUE, <<>>,
       <<Ref("BSWCFGPWM_MOT_INV1_DEADTIME", "MOT")>>),
         D("BswCfgCal_Pwm_MotDeadTime_INV2", "UINT32", TRUE, <<>>,
       <<Ref("BSWCFGPWM_MOT_INV2_DEADTIME", "MOT")>>),
         D("BswCfgCal_Pwm_MotDeadTime_Multi", "UINT32", TRUE, <<>>,
       <<Ref("BSWCFGPWM_MOT_DEADTIME_MULTI", "MOT")>>),
         D("BswCfgCal_Pwm_MotMinPulseWidth_INV1", "UINT32", TRUE, <<>>,
       <<Ref("BSWCFGPWM_MOT_INV1_MIN_WIDTH", "MOT")>>),
         D("BswCfgCal_Pwm_MotMinPulseWidth_INV2", "UINT32", TRUE, <<>>,
       <<Ref("BSWCFGPWM_MOT_INV2_MIN_WIDTH", "MOT")>>),
         D("BswCfgCal_Pwm_MotUpdateTime_INV1", "UINT32", TRUE, <<>>,
       <<Ref("BSWCFGPWM_MOT_INV1_UPDATE_TIME", "MOT")>>),
         D("BswCfgCal_Pwm_MotUpdateTime_INV2", "UINT32", TRUE, <<>>,
       <<Ref("BSWCFGPWM_MOT_INV2_UPDATE_TIME", "MOT")>>),
         D("BswCfgCal_Pwm_MotPwmMode", "UINT8", TRUE, <<>>,
       <<Ref("BSWCFGPWM_MOT_PWMMAC_MODE", "MOT")>>),
         D("BswCfgCal_Pwm_MotAsacEdgeOffset", "UINT32", TRUE, <<>>,
       <<Ref("BSWCFGPWM_MOT_ASAC_EDGE_OFFSET", "MOT")>>),
         D("BswCfgCal_Pwm_MotUpdatetime_AutoMode", "UINT8", TRUE, <<>>,
       <<Ref("BSWCFGPWM_MOT_UPDATETIME_AUTO_MODE", "MOT")>>),
         D("BswCfgCal_Pwm_MoteTPULoad_SYNC", "UINT32", TRUE, <<>>,
       <<Ref("BSWCFGPWM_MOT_eTPULoad_SYNC", "MOT")>>),
         D("BswCfgCal_Pwm_MoteTPULoad_RSLV", "UINT32", TRUE, <<>>,
       <<Ref("BSWCFGPWM_MOT_eTPULoad_RSLV", "MOT")>>),
         D("BswCfgCal_Pwm_MoteTPULoad_PWM", "UINT32", TRUE, <<>>,
       <<Ref("BSWCFGPWM_MOT_eTPULoad_PWM", "MOT")>>),
         D("BswCfgCal_Pwm_HsgStartTime", "UINT32", TRUE, <<>>,
       <<Ref("BSWCFGPWM_HSG_START", "HSG")>>),
         D("BswCfgCal_Pwm_HsgPeriod", "UINT32", TRUE, <<>>,
       <<Ref("BSWCFGPWM_HSG_PERIOD", "HSG")>>),
         D("BswCfgCal_Pwm_HsgDeadTime_INV1", "UINT32", TRUE, <<>>,
       <<Ref("BSWCFGPWM_HSG_INV1_DEADTIME", "HSG")>>),
         D("BswCfgCal_Pwm_HsgDeadTime_INV2", "UINT32", TRUE, <<>>,
       <<Ref("BSWCFGPWM_HSG_INV2_DEADTIME", "HSG")>>),
         D("BswCfgCal_Pwm_HsgMinPulseWidth_INV1", "UINT32", TRUE, <<>>,
       <<Ref("BSWCFGPWM_HSG_INV1_MIN_WIDTH", "HSG")>>),
         D("BswCfgCal_Pwm_HsgMinPulseWidth_INV2", "UINT32", TRUE, <<>>,
       <<Ref("BSWCFGPWM_HSG_INV2_MIN_WIDTH", "HSG")>>),
         D("BswCfgCal_Pwm_HsgUpdateTime_INV1", "UINT32", TRUE, <<>>,
       <<Ref("BSWCFGPWM_HSG_INV1_UPDATE_TIME", "HSG")>>),
         D("BswCfgCal_Pwm_HsgUpdateTime_INV2", "UINT32", TRUE, <<>>,
       <<Ref("BSWCFGPWM_HSG_INV2_UPDATE_TIME", "HSG")>>),
         D("BswCfgCal_Pwm_HsgPwmMode", "UINT8", TRUE, <<>>,
       <<Ref("BSWCFGPWM_HSG_PWMMAC_MODE", "HSG")>>),
         D("BswCfgCal_Pwm_HsgAsacEdgeOffset", "UINT32", TRUE, <<>>,
       <<Ref("BSWCFGPWM_HSG_ASAC_EDGE_OFFSET", "HSG")>>),
         D("BswCfgCal_Pwm_HsgUpdatetime_AutoMode", "UINT8", TRUE, <<>>,
       <<Ref("BSWCFGPWM_HSG_UPDATETIME_AUTO_MODE", "HSG")>>),
         D("BswCfgCal_Pwm_HsgeTPULoad_SYNC", "UINT32", TRUE, <<>>,
       <<Ref("BSWCFGPWM_HSG_eTPULoad_SYNC", "HSG")>>),
         D("BswCfgCal_Pwm_HsgeTPULoad_RSLV", "UINT32", TRUE, <<>>,
       <<Ref("BSWCFGPWM_HSG_eTPULoad_RSLV", "HSG")>>),
         D("BswCfgCal_Pwm_HsgeTPULoad_PWM", "UINT32", TRUE, <<>>,
       <<Ref("BSWCFGPWM_HSG_eTPULoad_PWM", "HSG")>>)>>
      [] f = "BswCfgPwm.c" /\ part = 2 ->
         <<D("BswCfgVal_Pwm_MotUpdateTime_INV1", "UINT32", FALSE, <<>>,
       <<Ref("BSWCFGPWM_MOT_INV1_UPDATE_TIME", "MOT")>>),
         D("BswCfgVal_Pwm_MotUpdateTime_INV2", "UINT32", FALSE, <<>>,
       <<Ref("BSWCFGPWM_MOT_INV2_UPDATE_TIME", "MOT")>>),
         D("BswCfgVal_Pwm_HsgUpdateTime_INV1", "UINT32", FALSE, <<>>,
       <<Ref("BSWCFGPWM_HSG_INV1_UPDATE_TIME", "HSG")>>),
         D("BswCfgVal_Pwm_HsgUpdateTime_INV2", "UINT32", FALSE, <<>>,
       <<Ref("BSWCFGPWM_HSG_INV2_UPDATE_TIME", "HSG")>>)>>
      [] f = "BswCfgRdc.c" /\ part = 1 ->
         <<D("BswCfgCal_Rdc_MotPeriod", "UINT32", TRUE, <<>>,
       <<Ref("BSWCFGRDC_MOT_PERIOD", "MOT")>>),
         D("BswCfgCal_Rdc_MotStartOffset", "FLOAT32", TRUE, <<>>,
       <<Ref("BSWCFGRDC_MOT_START_OFFSET", "MOT")>>),
         D("BswCfgCal_Rdc_MotK1", "FLOAT32", TRUE, <<>>,
       <<Ref("BSWCFGRDC_MOT_K1_D", "MOT")>>),
         D("BswCfgCal_Rdc_MotK2", "FLOAT32", TRUE, <<>>,
       <<Ref("BSWCFGRDC_MOT_K2_D", "MOT")>>),
         D("BswCfgCal_Rdc_MotK1Scale", "INT32", TRUE, <<>>,
       <<Ref("BSWCFGRDC_MOT_K1_SCALE", "MOT")>>),
         D("BswCfgCal_Rdc_MotK2Scale", "INT32", TRUE, <<>>,
       <<Ref("BSWCFGRDC_MOT_K2_SCALE", "MOT")>>),
         D("BswCfgCal_Rdc_MotSinDcOffset", "UINT32", TRUE, <<>>,
       <<Ref("BSWCFGRDC_MOT_SIN_DC_OFFSET", "MOT")>>),
         D("BswCfgCal_Rdc_MotCosDcOffset", "UINT32", TRUE, <<>>,
       <<Ref("BSWCFGRDC_MOT_COS_DC_OFFSET", "MOT")>>),
         D("BswCfgCal_Rdc_MotSinScale", "INT32", TRUE, <<>>,
       <<Ref("BSWCFGRDC_MOT_SIN_SCALE", "MOT")>>),
         D("BswCfgCal_Rdc_MotCosScale", "INT32", TRUE, <<>>,
       <<Ref("BSWCFGRDC_MOT_COS_SCALE", "MOT")>>),
         D("BswCfgCal_Rdc_MotUnitrigDelay", "UINT32", TRUE, <<>>,
       <<Ref("BSWCFGRDC_MOT_UNITRIG_DELAY", "MOT")>>),
         D("BswCfgCal_Rdc_MotUnitrigStartOffset", "UINT32", TRUE, <<>>,
       <<Ref("BSWCFGRDC_MOT_UNITRIG_START_OFFSET", "MOT")>>),
         D("BswCfgCal_Rdc_HsgPeriod", "UINT32", TRUE, <<>>,
       <<Ref("BSWCFGRDC_HSG_PERIOD", "HSG")>>),
         D("BswCfgCal_Rdc_HsgStartOffset", "FLOAT32", TRUE, <<>>,
       <<Ref("BSWCFGRDC_HSG_START_OFFSET", "HSG")>>),
         D("BswCfgCal_Rdc_HsgK1", "FLOAT32", TRUE, <<>>,
       <<Ref("BSWCFGRDC_HSG_K1_D", "HSG")>>),
         D("BswCfgCal_Rdc_HsgK2", "FLOAT32", TRUE, <<>>,
       <<Ref("BSWCFGRDC_HSG_K2_D", "HSG")>>),
         D("BswCfgCal_Rdc_HsgK1Scale", "INT32", TRUE, <<>>,
       <<Ref("BSWCFGRDC_HSG_K1_SCALE", "HSG")>>),
         D("BswCfgCal_Rdc_HsgK2Scale", "INT32", TRUE, <<>>,
       <<Ref("BSWCFGRDC_HSG_K2_SCALE", "HSG")>>),
         D("BswCfgCal_Rdc_HsgSinDcOffset", "UINT32", TRUE, <<>>,
       <<Ref("BSWCFGRDC_HSG_SIN_DC_OFFSET", "HSG")>>),
         D("BswCfgCal_Rdc_HsgCosDcOffset", "UINT32", TRUE, <<>>,
       <<Ref("BSWCFGRDC_HSG_COS_DC_OFFSET", "HSG")>>),
         D("BswCfgCal_Rdc_HsgSinScale", "INT32", TRUE, <<>>,
       <<Ref("BSWCFGRDC_HSG_SIN_SCALE", "HSG")>>),
         D("BswCfgCal_Rdc_HsgCosScale", "INT32", TRUE, <<>>,
       <<Ref("BSWCFGRDC_HSG_COS_SCALE", "HSG")>>),
         D("BswCfgCal_Rdc_HsgUnitrigDelay", "UINT32", TRUE, <<>>,
       <<Ref("BSWCFGRDC_HSG_UNITRIG_DELAY", "HSG")>>),
         D("BswCfgCal_Rdc_HsgUnitrigStartOffset", "UINT32", TRUE, <<>>,
       <<Ref("BSWCFGRDC_HSG_UNITRIG_START_OFFSET", "HSG")>>)>>
      [] f = "CcCalBase.c" /\ part = 1 ->
         <<D("BswCfgCal_Rsv_DefaultOffset", "FLOAT32", TRUE, <<"TOTAL_TARGET">>,
       <<Ref("DEFAULT_OFFSET_MOT", "MOT"), Ref("DEFAULT_OFFSET_HSG", "HSG")>>),
         D("BswCfgCal_Rsv_RotDir", "UINT16", TRUE, <<"TOTAL_TARGET">>,
       <<Ref("RESOLVER_DIRECTION_MOT", "MOT"), Ref("RESOLVER_DIRECTION_HSG", "HSG")>>)>>
      [] f = "CcCalBase.c" /\ part = 2 ->
         <<D("TestCal_VnCtrl_Enb", "BOOL", TRUE, <<>>,
       <<Ref("SET_FLAG", "")>>)>>
      [] f = "CcCalBase.c" /\ part = 3 ->
         <<D("CcCal_Motor_frated", "FLOAT32", TRUE, <<"TOTAL_TARGET">>,
       <<Lit(0, 0), Lit(0, 0)>>),
         D("CcCal_SWRDC_GainUpdateCal", "UINT8", TRUE, <<"TOTAL_TARGET">>,
       <<Ref("CLR_FLAG", ""), Ref("CLR_FLAG", "")>>),
         D("CcCal_SWRDC_GainUpdate_K1D", "signed long", TRUE, <<"TOTAL_TARGET">>,
       <<Fix(64339817, -8, 23), Fix(64339817, -8, 23)>>),
         D("CcCal_SWRDC_GainUpdate_K1SCALE", "signed long", TRUE, <<"TOTAL_TARGET">>,
       <<Lit(7, 0), Lit(7, 0)>>),
         D("CcCal_SWRDC_GainUpdate_K2D", "signed long", TRUE, <<"TOTAL_TARGET">>,
       <<Fix(99471843, -8, 23), Fix(99471843, -8, 23)>>),
         D("CcCal_SWRDC_GainUpdate_K2SCALE", "signed long", TRUE, <<"TOTAL_TARGET">>,
       <<Lit(4, 0), Lit(4, 0)>>),
         D("CcCal_SWRDC_GainUpdate_NaturalFreq", "INT32", TRUE, <<"TOTAL_TARGET">>,
       <<Lit(200, 0), Lit(200, 0)>>),
         D("CcCal_SWRDC_GainUpdate_DampFac", "FLOAT32", TRUE, <<"TOTAL_TARGET">>,
       <<Lit(1, 0), Lit(1, 0)>>),
         D("CcCal_ToggleEnb", "UINT16", TRUE, <<"TOTAL_TARGET">>,
       <<Ref("CLR_FLAG", ""), Ref("CLR_FLAG", "")>>),
         D("CcCal_Fsamp_High_Limit", "FLOAT32", TRUE, <<"TOTAL_TARGET">>,
       <<Lit(19800, 0), Lit(19700, 0)>>),
         D("CcCal_Motor_Ld", "FLOAT32", TRUE, <<"TOTAL_TARGET">>,
       <<Lit(16, -5), Lit(2, -4)>>),
         D("CcCal_Motor_Lq", "FLOAT32", TRUE, <<"TOTAL_TARGET">>,
       <<Lit(27, -5), Lit(4, -4)>>),
         D("CcCal_Motor_Llk", "FLOAT32", TRUE, <<"TOTAL_TARGET">>,
       <<Lit(3, -3), Lit(3, -4)>>),
         D("CcCal_DaxisCurCtrlBW", "FLOAT32", TRUE, <<"TOTAL_TARGET">>,
       <<Lit(350, 0), Lit(350, 0)>>),
         D("CcCal_QaxisCurCtrlBW", "FLOAT32", TRUE, <<"TOTAL_TARGET">>,
       <<Lit(350, 0), Lit(350, 0)>>),
         D("CcCal_NaxisCurCtrlBW", "FLOAT32", TRUE, <<"TOTAL_TARGET">>,
       <<Lit(350, 0), Lit(350, 0)>>),
         D("CcCal_PaxisCurCtrlBW", "FLOAT32", TRUE, <<"TOTAL_TARGET">>,
       <<Lit(350, 0), Lit(350, 0)>>),
         D("CcCal_SWRDC_Speed_Override", "UINT16", TRUE, <<"TOTAL_TARGET">>,
       <<Ref("CLR_FLAG", ""), Ref("CLR_FLAG", "")>>),
         D("L1", "FLOAT32", TRUE, <<>>,
       <<PiPow(3, 1)>>),
         D("L2", "FLOAT32", TRUE, <<>>,
       <<PiPow(3, 2)>>),
         D("L3", "FLOAT32", TRUE, <<>>,
       <<PiPow(1, 3)>>),
         D("CcCal_Cur_lag", "FLOAT32", TRUE, <<"TOTAL_TARGET">>,
       <<Lit(0, 0), Lit(0, 0)>>),
         D("FSW_TAB", "FLOAT32", TRUE, <<"TOTAL_TARGET", "VARIABLE_FSW_TAB_OUT_SIZE">>,
       <<Row("MOT", <<Dec(4000, 0), Dec(4000, 0), Dec(4000, 0), Dec(4000, 0), Dec(4000, 0), Dec(4000, 0), Dec(4000, 0), Dec(4000, 0), Dec(4000, 0)>>),
         Row("HSG", <<Dec(4000, 0), Dec(4000, 0), Dec(4000, 0), Dec(4000, 0), Dec(4000, 0), Dec(4000, 0), Dec(4000, 0), Dec(4000, 0), Dec(4000, 0)>>)>>),
         D("HSG_VAR_HOVMGAIN_TAB", "FLOAT32", TRUE, <<"VARIABLE_HOVM_TAB_ROW_SIZE", "VARIABLE_HOVM_TAB_COL_SIZE">>,
       <<Row("", <<Dec(1, 0), Dec(1, 0), Dec(1, 0), Dec(1, 0), Dec(1, 0), Dec(1, 0), Dec(1, 0), Dec(11, -1), Dec(11, -1), Dec(11, -1), Dec(11, -1)>>),
         Row("", <<Dec(1, 0), Dec(1, 0), Dec(1, 0), Dec(1, 0), Dec(1, 0), Dec(1, 0), Dec(1, 0), Dec(11, -1), Dec(11, -1), Dec(11, -1), Dec(11, -1)>>),
         Row("", <<Dec(1, 0), Dec(1, 0), Dec(1, 0), Dec(1, 0), Dec(1, 0), Dec(1, 0), Dec(1, 0), Dec(11, -1), Dec(11, -1), Dec(11, -1), Dec(11, -1)>>),
         Row("", <<Dec(1, 0), Dec(1, 0), Dec(1, 0), Dec(1, 0), Dec(1, 0), Dec(1, 0), Dec(1, 0), Dec(11, -1), Dec(11, -1), Dec(11, -1), Dec(11, -1)>>),
         Row("", <<Dec(1, 0), Dec(1, 0), Dec(1, 0), Dec(1, 0), Dec(1, 0), Dec(1, 0), Dec(1, 0), Dec(11, -1), Dec(11, -1), Dec(11, -1), Dec(11, -1)>>),
         Row("", <<Dec(1, 0), Dec(1, 0), Dec(1, 0), Dec(1, 0), Dec(1, 0), Dec(1, 0), Dec(1, 0), Dec(11, -1), Dec(11, -1), Dec(11, -1), Dec(11, -1)>>),
         Row("", <<Dec(1, 0), Dec(1, 0), Dec(1, 0), Dec(1, 0), Dec(1, 0), Dec(1, 0), Dec(1, 0), Dec(11, -1), Dec(11, -1), Dec(11, -1), Dec(11, -1)>>),
         Row("", <<Dec(1, 0), Dec(1, 0), Dec(1, 0), Dec(1, 0), Dec(1, 0), Dec(1, 0), Dec(1, 0), Dec(11, -1), Dec(11, -1), Dec(11, -1), Dec(11, -1)>>),
         Row("", <<Dec(1, 0), Dec(1, 0), Dec(1, 0), Dec(1, 0), Dec(1, 0), Dec(1, 0), Dec(1, 0), Dec(11, -1), Dec(11, -1), Dec(11, -1), Dec(11, -1)>>),
         Row("", <<Dec(1, 0), Dec(1, 0), Dec(11, -1), Dec(11, -1), Dec(11, -1), Dec(11, -1), Dec(11, -1), Dec(11, -1), Dec(11, -1), Dec(11, -1), Dec(11, -1)>>),
         Row("", <<Dec(1, 0), Dec(1, 0), Dec(11, -1), Dec(11, -1), Dec(11, -1), Dec(11, -1), Dec(11, -1), Dec(11, -1), Dec(11, -1), Dec(11, -1), Dec(11, -1)>>),
         Row("", <<Dec(1, 0), Dec(1, 0), Dec(11, -1), Dec(11, -1), Dec(11, -1), Dec(11, -1), Dec(11, -1), Dec(11, -1), Dec(11, -1), Dec(11, -1), Dec(11, -1)>>),
         Row("", <<Dec(1, 0), Dec(1, 0), Dec(11, -1), Dec(11, -1), Dec(11, -1), Dec(11, -1), Dec(11, -1), Dec(11, -1), Dec(11, -1), Dec(11, -1), Dec(11, -1)>>),
         Row("", <<Dec(1, 0), Dec(1, 0), Dec(11, -1), Dec(11, -1), Dec(11, -1), Dec(11, -1), Dec(11, -1), Dec(11, -1), Dec(11, -1), Dec(11, -1), Dec(11, -1)>>),
         Row("", <<Dec(1, 0), Dec(1, 0), Dec(11, -1), Dec(11, -1), Dec(11, -1), Dec(11, -1), Dec(11, -1), Dec(11, -1), Dec(11, -1), Dec(11, -1), Dec(11, -1)>>),
         Row("", <<Dec(1, 0), Dec(1, 0), Dec(11, -1), Dec(11, -1), Dec(11, -1), Dec(11, -1), Dec(11, -1), Dec(11, -1), Dec(11, -1), Dec(11, -1), Dec(11, -1)>>),
         Row("", <<Dec(1, 0), Dec(1, 0), Dec(11, -1), Dec(11, -1), Dec(11, -1), Dec(11, -1), Dec(11, -1), Dec(11, -1), Dec(11, -1), Dec(11, -1), Dec(11, -1)>>),
         Row("", <<Dec(1, 0), Dec(1, 0), Dec(11, -1), Dec(11, -1), Dec(11, -1), Dec(11, -1), Dec(11, -1), Dec(11, -1), Dec(11, -1), Dec(11, -1), Dec(11, -1)>>),
         Row("", <<Dec(1, 0), Dec(1, 0), Dec(11, -1), Dec(11, -1), Dec(11, -1), Dec(11, -1), Dec(11, -1), Dec(11, -1), Dec(11, -1), Dec(11, -1), Dec(11, -1)>>)>>),
         D("MAGINJ_TAB", "FLOAT32", TRUE, <<"TOTAL_TARGET", "VARIABLE_FSW_TAB_OUT_SIZE">>,
       <<Row("MOT", <<Dec(0, 0), Dec(0, 0), Dec(0, 0), Dec(0, 0), Dec(0, 0), Dec(0, 0), Dec(0, 0), Dec(0, 0), Dec(0, 0)>>),
         Row("HSG", <<Dec(0, 0), Dec(0, 0), Dec(0, 0), Dec(0, 0), Dec(0, 0), Dec(0, 0), Dec(0, 0), Dec(0, 0), Dec(0, 0)>>)>>),
         D("CcCal_BETC_SetFlag", "UINT8", TRUE, <<"TOTAL_TARGET">>,
       <<Ref("CLR_FLAG", ""), Ref("CLR_FLAG", "")>>),
         D("CcCal_BETC_CoeffLAMpm_Tmp", "FLOAT32", TRUE, <<"TOTAL_TARGET">>,
       <<Lit(1, -3), Lit(1, -3)>>),
         D("CcCal_BETC_LAMpmAt90MAP", "FLOAT32", TRUE, <<"TOTAL_TARGET">>,
       <<Lit(52, -3), Lit(52, -3)>>),
         D("CcCal_BETC_EndCnt", "UINT32", TRUE, <<"TOTAL_TARGET">>,
       <<Lit(3, 0), Lit(3, 0)>>),
         D("CcCal_BETC_DeltaTmpComp_Lmt", "FLOAT32", TRUE, <<"TOTAL_TARGET">>,
       <<Lit(40, 0), Lit(40, 0)>>),
         D("CcCal_DeadTimeCompEnb", "UINT8", TRUE, <<"TOTAL_TARGET">>,
       <<Ref("SET_FLAG", ""), Ref("SET_FLAG", "")>>),
         D("CcCal_DeadTimeComp_INVIcompZCC_INV1", "FLOAT32", FALSE, <<"TOTAL_TARGET">>,
       <<Rcp("CUR_SENSOR_RANGE_MOT", 5, -2, "MOT"), Rcp("CUR_SENSOR_RANGE_HSG", 5, -2, "HSG")>>),
         D("CcCal_DeadTimeComp_INVIcompZCC_INV2", "FLOAT32", FALSE, <<"TOTAL_TARGET">>,
       <<Rcp("CUR_SENSOR_RANGE_MOT", 5, -2, "MOT"), Rcp("CUR_SENSOR_RANGE_HSG", 5, -2, "HSG")>>),
         D("CcCal_DeadTimeComp_TdeadComp_INV1", "FLOAT32", TRUE, <<"TOTAL_TARGET">>,
       <<Off("BSWCFGPWM_MOT_INV1_DEADTIME", 100, 1, -9, "MOT"), Off("BSWCFGPWM_HSG_INV1_DEADTIME", 100, 1, -9, "HSG")>>),
         D("CcCal_DeadTimeComp_TdeadComp_INV2", "FLOAT32", TRUE, <<"TOTAL_TARGET">>,
       <<Off("BSWCFGPWM_MOT_INV2_DEADTIME", 100, 1, -9, "MOT"), Off("BSWCFGPWM_HSG_INV2_DEADTIME", 100, 1, -9, "HSG")>>),
         D("CcCal_DeadTimeComp_IcompZCC_INV1", "FLOAT32", TRUE, <<"TOTAL_TARGET">>,
       <<Mul("CUR_SENSOR_RANGE_MOT", 5, -2, "MOT"), Mul("CUR_SENSOR_RANGE_HSG", 5, -2, "HSG")>>),
         D("CcCal_DeadTimeComp_IcompZCC_INV2", "FLOAT32", TRUE, <<"TOTAL_TARGET">>,
       <<Mul("CUR_SENSOR_RANGE_MOT", 5, -2, "MOT"), Mul("CUR_SENSOR_RANGE_HSG", 5, -2, "HSG")>>),
         D("CcCal_CurA_InitialOffset", "INT16", TRUE, <<"TOTAL_TARGET">>,
       <<Ref("CUR_SENSOR_OFFSET_MOT", "MOT"), Ref("CUR_SENSOR_OFFSET_HSG", "HSG")>>),
         D("CcCal_CurB_InitialOffset", "INT16", TRUE, <<"TOTAL_TARGET">>,
       <<Ref("CUR_SENSOR_OFFSET_MOT", "MOT"), Ref("CUR_SENSOR_OFFSET_HSG", "HSG")>>),
         D("CcCal_CurC_InitialOffset", "INT16", TRUE, <<"TOTAL_TARGET">>,
       <<Ref("CUR_SENSOR_OFFSET_MOT", "MOT"), Ref("CUR_SENSOR_OFFSET_HSG", "HSG")>>),
         D("CcCal_Cur_ScaleFactor", "FLOAT32", TRUE, <<"TOTAL_TARGET">>,
       <<Ref("CUR_SENSOR_SCALE_MOT", "MOT"), Ref("CUR_SENSOR_SCALE_HSG", "HSG")>>),
         D("CcCal_HvBatt_InitialOffset", "UINT16", TRUE, <<"TOTAL_TARGET">>,
       <<Ref("HVBATT_SENSOR_OFFSET", ""), Ref("HVBATT_SENSOR_OFFSET", "")>>),
         D("CcCal_HvBatt_ScaleFactor", "FLOAT32", TRUE, <<"TOTAL_TARGET">>,
       <<Ref("HVBATT_SENSOR_SCALE", ""), Ref("HVBATT_SENSOR_SCALE", "")>>),
         D("CcCal_OffsetValidityChk_ZeroCurOverride", "UINT8", TRUE, <<"TOTAL_TARGET">>,
       <<Ref("SET_FLAG", ""), Ref("SET_FLAG", "")>>),
         D("CcCal_LvAdToPhyOffset", "FLOAT32", TRUE, <<"TOTAL_TARGET">>,
       <<Ref("LVBATT_SENSOR_OFFSET", ""), Ref("LVBATT_SENSOR_OFFSET", "")>>),
         D("CcCal_LvAdToPhySclFct", "FLOAT32", TRUE, <<"TOTAL_TARGET">>,
       <<Ref("LVBATT_SENSOR_SCALE", ""), Ref("LVBATT_SENSOR_SCALE", "")>>)>>
      [] f = "CcCalBase.c" /\ part = 5 ->
         <<D("CcCal_VarDTGS_MotTqLvl1_Max_HysIn", "FLOAT32", TRUE, <<"TOTAL_TARGET">>,
       <<Lit(80, 0), Lit(0, 0)>>),
         D("CcCal_VarDTGS_MotTqLvl1_Min_HysIn", "FLOAT32", TRUE, <<"TOTAL_TARGET">>,
       <<Lit(-45, 0), Lit(0, 0)>>),
         D("CcCal_VarDTGS_MotSpdLvl1_Max_HysIn", "FLOAT32", TRUE, <<"TOTAL_TARGET">>,
       <<Lit(8200, 0), Lit(0, 0)>>),
         D("CcCal_VarDTGS_MotSpdLvl1_Min_HysIn", "FLOAT32", TRUE, <<"TOTAL_TARGET">>,
       <<Lit(866, 0), Lit(0, 0)>>),
         D("CcCal_VarDTGS_MotTqLvl1_Max_HysOut", "FLOAT32", TRUE, <<"TOTAL_TARGET">>,
       <<Lit(88, 0), Lit(0, 0)>>),
         D("CcCal_VarDTGS_MotTqLvl1_Min_HysOut", "FLOAT32", TRUE, <<"TOTAL_TARGET">>,
       <<Lit(-50, 0), Lit(0, 0)>>),
         D("CcCal_VarDTGS_MotSpdLvl1_Max_HysOut", "FLOAT32", TRUE, <<"TOTAL_TARGET">>,
       <<Lit(8500, 0), Lit(0, 0)>>),
         D("CcCal_VarDTGS_MotSpdLvl1_Min_HysOut", "FLOAT32", TRUE, <<"TOTAL_TARGET">>,
       <<Lit(709, 0), Lit(0, 0)>>),
         D("CcCal_VarDTGS_MotTqLvl2_Max_HysIn", "FLOAT32", TRUE, <<"TOTAL_TARGET">>,
       <<Lit(0, 0), Lit(0, 0)>>),
         D("CcCal_VarDTGS_MotTqLvl2_Min_HysIn", "FLOAT32", TRUE, <<"TOTAL_TARGET">>,
       <<Lit(0, 0), Lit(0, 0)>>),
         D("CcCal_VarDTGS_MotSpdLvl2_Max_HysIn", "FLOAT32", TRUE, <<"TOTAL_TARGET">>,
       <<Lit(0, 0), Lit(0, 0)>>),
         D("CcCal_VarDTGS_MotSpdLvl2_Min_HysIn", "FLOAT32", TRUE, <<"TOTAL_TARGET">>,
       <<Lit(0, 0), Lit(0, 0)>>),
         D("CcCal_VarDTGS_MotTqLvl2_Max_HysOut", "FLOAT32", TRUE, <<"TOTAL_TARGET">>,
       <<Lit(0, 0), Lit(0, 0)>>),
         D("CcCal_VarDTGS_MotTqLvl2_Min_HysOut", "FLOAT32", TRUE, <<"TOTAL_TARGET">>,
       <<Lit(0, 0), Lit(0, 0)>>),
         D("CcCal_VarDTGS_MotSpdLvl2_Max_HysOut", "FLOAT32", TRUE, <<"TOTAL_TARGET">>,
       <<Lit(0, 0), Lit(0, 0)>>),
         D("CcCal_VarDTGS_MotSpdLvl2_Min_HysOut", "FLOAT32", TRUE, <<"TOTAL_TARGET">>,
       <<Lit(0, 0), Lit(0, 0)>>),
         D("CcCal_VarDTGS_MotTqLvl3_Max_HysIn", "FLOAT32", TRUE, <<"TOTAL_TARGET">>,
       <<Lit(0, 0), Lit(0, 0)>>),
         D("CcCal_VarDTGS_MotTqLvl3_Min_HysIn", "FLOAT32", TRUE, <<"TOTAL_TARGET">>,
       <<Lit(0, 0), Lit(0, 0)>>),
         D("CcCal_VarDTGS_MotSpdLvl3_Max_HysIn", "FLOAT32", TRUE, <<"TOTAL_TARGET">>,
       <<Lit(0, 0), Lit(0, 0)>>),
         D("CcCal_VarDTGS_MotSpdLvl3_Min_HysIn", "FLOAT32", TRUE, <<"TOTAL_TARGET">>,
       <<Lit(0, 0), Lit(0, 0)>>),
         D("CcCal_VarDTGS_MotTqLvl3_Max_HysOut", "FLOAT32", TRUE, <<"TOTAL_TARGET">>,
       <<Lit(0, 0), Lit(0, 0)>>),
         D("CcCal_VarDTGS_MotTqLvl3_Min_HysOut", "FLOAT32", TRUE, <<"TOTAL_TARGET">>,
       <<Lit(0, 0), Lit(0, 0)>>),
         D("CcCal_VarDTGS_MotSpdLvl3_Max_HysOut", "FLOAT32", TRUE, <<"TOTAL_TARGET">>,
       <<Lit(0, 0), Lit(0, 0)>>),
         D("CcCal_VarDTGS_MotSpdLvl3_Min_HysOut", "FLOAT32", TRUE, <<"TOTAL_TARGET">>,
       <<Lit(0, 0), Lit(0, 0)>>)>>
      [] OTHER -> <<>>

FeatureDefinitions(axis, v) ==
    CASE axis = "_SA_2STAGE_PWM_MODE" /\ v = "_2STG_SVPWM" ->
         <<D("TestCal_RSPWM_Enb", "BOOL", TRUE, <<>>,
       <<Ref("CLR_FLAG", "")>>)>>
      [] axis = "_SA_2STAGE_PWM_MODE" /\ v = "_2STG_RSPWM" ->
         <<D("TestCal_RSPWM_Enb", "BOOL", TRUE, <<>>,
       <<Ref("SET_FLAG", "")>>)>>
      [] axis = "_SA_SQPWM_REGEN_DIS" /\ v = "_SQPWM_REGEN_ENB" ->
         <<D("CcCal_SQPWM_Mode_Regen_Disable", "UINT8", TRUE, <<"TOTAL_TARGET">>,
       <<Ref("CLR_FLAG", ""), Ref("CLR_FLAG", "")>>)>>
      [] axis = "_SA_SQPWM_REGEN_DIS" /\ v = "_SQPWM_REGEN_DIS" ->
         <<D("CcCal_SQPWM_Mode_Regen_Disable", "UINT8", TRUE, <<"TOTAL_TARGET">>,
       <<Ref("SET_FLAG", ""), Ref("SET_FLAG", "")>>)>>
      [] axis = "_PWM_BURST_MODE" /\ v = "_BURST_MODE_ENABLE" ->
         <<D("CcCal_PwmOff_MotTqLvl_Max", "FLOAT32", TRUE, <<"TOTAL_TARGET">>,
       <<Lit(1, 0), Lit(0, 0)>>),
         D("CcCal_PwmOff_MotTqLvl_Min", "FLOAT32", TRUE, <<"TOTAL_TARGET">>,
       <<Lit(0, 0), Lit(0, 0)>>),
         D("CcCal_PwmOn_MotTqLvl_Max", "FLOAT32", TRUE, <<"TOTAL_TARGET">>,
       <<Lit(2, 0), Lit(0, 0)>>),
         D("CcCal_PwmOn_MotTqLvl_Min", "FLOAT32", TRUE, <<"TOTAL_TARGET">>,
       <<Lit(0, 0), Lit(0, 0)>>),
         D("CcCal_PwmOff_WaitTime", "UINT32", TRUE, <<"TOTAL_TARGET">>,
       <<Lit(100, 0), Lit(100, 0)>>)>>
      [] axis = "_PWM_BURST_MODE" /\ v = "_BURST_MODE_DISABLE" ->
         <<D("CcCal_PwmOff_MotTqLvl_Max", "FLOAT32", TRUE, <<"TOTAL_TARGET">>,
       <<Lit(0, 0), Lit(0, 0)>>),
         D("CcCal_PwmOff_MotTqLvl_Min", "FLOAT32", TRUE, <<"TOTAL_TARGET">>,
       <<Lit(0, 0), Lit(0, 0)>>),
         D("CcCal_PwmOn_MotTqLvl_Max", "FLOAT32", TRUE, <<"TOTAL_TARGET">>,
       <<Lit(0, 0), Lit(0, 0)>>),
         D("CcCal_PwmOn_MotTqLvl_Min", "FLOAT32", TRUE, <<"TOTAL_TARGET">>,
       <<Lit(0, 0), Lit(0, 0)>>),
         D("CcCal_PwmOff_WaitTime", "UINT32", TRUE, <<"TOTAL_TARGET">>,
       <<Lit(100, 0), Lit(100, 0)>>)>>
      [] axis = "_VAR_DTGS_OPTION" /\ v = "_VAR_DTGS_OPTION_INCLUDED" ->
         <<D("CcCal_VarDTGS_Enb", "UINT8", TRUE, <<"TOTAL_TARGET">>,
       <<Ref("SET_FLAG", ""), Ref("SET_FLAG", "")>>)>>
      [] axis = "_VAR_DTGS_OPTION" /\ v = "_VAR_DTGS_OPTION_NOT_INCLUDED" ->
         <<D("CcCal_VarDTGS_Enb", "UINT8", TRUE, <<"TOTAL_TARGET">>,
       <<Ref("CLR_FLAG", ""), Ref("CLR_FLAG", "")>>)>>
      [] OTHER -> <<>>

(***************************************************************************)
(* Names the units use without defining them.  They come from headers that *)
(* are not part of the generated set (common.h, CcCal.h, ItrCpx.h ...).    *)
(***************************************************************************)
ExternalNames ==
    {"BSWCFGRDC_MOT_UNITRIG_DELAY", "BSWCFGRDC_HSG_UNITRIG_DELAY",
     "TOTAL_TARGET", "DEFAULT_OFFSET_MOT", "DEFAULT_OFFSET_HSG",
     "RESOLVER_DIRECTION_MOT", "RESOLVER_DIRECTION_HSG", "CLR_FLAG", "SET_FLAG",
     "VARIABLE_HOVM_TAB_ROW_SIZE", "VARIABLE_HOVM_TAB_COL_SIZE", "PI",
     "CUR_SENSOR_RANGE_HSG", "ITRCPX_SAMPLMODE_DOUBLE", "HVBATT_SENSOR_RANGE",
     "HVBATT_SENSOR_RANGE_TYP", "LVBATT_SENSOR_RANGE_OFFSET",
     "LVBATT_SENSOR_RANGE", "LVBATT_SENSOR_RANGE_TYP"}

\* number of target identities: the MOT row and the HSG row of a table
TotalTarget == 2

Targets == <<"MOT", "HSG">>

(***************************************************************************)
(* Files, include guards and the order of the items of each file.          *)
(***************************************************************************)
Inc(file) == [kind |-> "include", file |-> file, part |-> 0]

\* the headers that open and close a calibration section; they have no
\* include guard and are read at every #include
SectionBegins == {"section_CAL1_begin.h", "section_CAL2_begin.h"}

SectionEnd == "section_CAL_end.h"

SectionMarkers == SectionBegins \cup {SectionEnd}

Blk(kind, part) == [kind |-> kind, file |-> "", part |-> part]

Units == <<"BswCfgPwm.c", "BswCfgRdc.c", "CcCalBase.c">>

NumUnits == Len(Units)

ConfigHeaders == <<"CcCalPrjCfg.h", "SpInvCal.h">>

\* the orders in which a build may read the units and the two
\* configuration headers; the generated files fix neither
Orders ==
    {[units |-> <<1, 2, 3>>, headers |-> <<1, 2>>],
     [units |-> <<3, 1, 2>>, headers |-> <<2, 1>>]}

FirstOrder == [units |-> <<1, 2, 3>>, headers |-> <<1, 2>>]

GuardOf(f) ==
    CASE f = "CcCalPrjCfg.h" -> "_CCCALPRJCFG_H_"
      [] f = "SpInvCal.h" -> "_SPINVCAL_H_"
      [] f = "BswCfgPwm.h" -> "_BSWCFGPWM_H_"
      [] f = "BswCfgRdc.h" -> "_BSWCFGRDC_H_"
      [] f = "CcCalBase.h" -> "_CCCALBASE_H_"
      [] f = "common.h" -> "_COMMON_H_"
      [] OTHER -> ""

\* common.h is not generated; it is the header every generated header
\* includes first and the only route by which a unit reaches the axis
\* macros and the two configuration headers
CommonItems(ord) ==
    <<Inc(ConfigHeaders[ord.headers[1]]), Inc(ConfigHeaders[ord.headers[2]])>>

FileItems(f, ord) ==
    CASE f = "common.h" -> CommonItems(ord)
      [] f = "CcCalPrjCfg.h" ->
            <<Inc("CcCalPrjCfg.h"), Blk("ProjectCluster", 0)>>
      [] f = "SpInvCal.h" ->
            <<Inc("common.h"), Blk("Defines", 0), Blk("GateIcType", 0),
              Blk("PowerModuleType", 0), Blk("MotCurSensorType", 0),
              Inc(SectionEnd)>>
      [] f = "BswCfgPwm.h" ->
            <<Inc("common.h"), Blk("Defines", 0), Blk("EtpuOption", 0),
              Blk("UpdateTimeMode", 0), Inc("section_CAL2_begin.h"),
              Blk("Declarations", 3), Inc(SectionEnd), Blk("Declarations", 4)>>
      [] f = "BswCfgRdc.h" ->
            <<Inc("common.h"), Blk("Defines", 0), Inc("section_CAL2_begin.h"),
              Blk("Declarations", 1), Inc(SectionEnd)>>
      [] f = "CcCalBase.h" ->
            <<Inc("common.h"), Inc("BswCfgPwm.h"), Inc("BswCfgRdc.h"),
              Blk("Defines", 0), Inc("section_CAL1_begin.h"),
              Blk("Declarations", 1),
              Blk("_SA_2STAGE_PWM_MODE", 0), Blk("Declarations", 2),
              Blk("_SA_SQPWM_REGEN_DIS", 0), Blk("Declarations", 3),
              Blk("_PWM_BURST_MODE", 0), Blk("_VAR_DTGS_OPTION", 0),
              Blk("Declarations", 5), Inc(SectionEnd)>>
      [] f = "BswCfgPwm.c" ->
            <<Inc("BswCfgPwm.h"), Inc("section_CAL2_begin.h"),
              Blk("Definitions", 1), Inc(SectionEnd), Blk("Definitions", 2)>>
      [] f = "BswCfgRdc.c" ->
            <<Inc("BswCfgRdc.h"), Inc("section_CAL2_begin.h"),
              Blk("Definitions", 1), Inc(SectionEnd)>>
      [] f = "CcCalBase.c" ->
            <<Inc("CcCalBase.h"), Inc("BswCfgPwm.h"), Inc("BswCfgRdc.h"),
              Inc("section_CAL1_begin.h"),
              Blk("Definitions", 1), Blk("_SA_2STAGE_PWM_MODE", 0),
              Blk("Definitions", 2), Blk("_SA_SQPWM_REGEN_DIS", 0),
              Blk("Definitions", 3), Blk("_PWM_BURST_MODE", 0),
              Blk("_VAR_DTGS_OPTION", 0), Blk("Definitions", 5),
              Inc(SectionEnd)>>
      [] OTHER -> <<>>

IsSource(f) == f \in {Units[i] : i \in 1..NumUnits}

(***************************************************************************)
(* Diagnostics.                                                            *)
(***************************************************************************)
Diag(kind, name) == [kind |-> kind, name |-> name]

(***************************************************************************)
(* The guards of the #if / #elif chain of an axis, in the order in which   *)
(* the chain is written: the values of the axis each guard matches.  The   *)
(* preprocessor takes the first branch whose guard matches.                *)
(***************************************************************************)
\* MarketGuards with the market of the #if repeated in the #elif
MarketGuardsOverlapping ==
    <<{"_NORTH_AMERICA_VERSION"}, MarketVersions>>

MarketGuards ==
    <<{"_NORTH_AMERICA_VERSION"},
      {"_DOMESTIC_VERSION", "_EUROPE_VERSION", "_CHINA_VERSION",
       "_COMMON_COUNTRY_VERSION", "_JAPAN_VERSION"}>>

Guards(axis) ==
    CASE axis = "_PROJECT_NAME" ->
           <<{"_MV_RWD_PROJ"}, {"_ME_RWD_PROJ"}>>
      [] axis = "_PERFORMANCE_TYPE" ->
           <<{"_STANDARD_VERSION", "_PERFORMANCE_VERSION",
           "_LONG_RANGE_VERSION", "_eM_160kW_VERSION", "_eM_200kW_VERSION",
           "_eM_250kW_VERSION"}>>
      [] axis = "_DEVELOPMENT_PHASE" ->
           <<{"_TCAR_VERSION"}, {"_PROTO_VERSION"}, {"_MASTER_VERSION"},
           {"_PILOT_1_VERSION"}, {"_PILOT_2_VERSION"}, {"_M_VERSION"},
           {"_SOP_VERSION"}, {"_RC_VERSION"}>>
      [] axis = "_MARKET_VERSION" ->
           MarketGuards
      [] axis = "_GATE_IC_TYPE" ->
           <<{Undefined}, {"_GATE_IC_TYPE_1"}, {"_GATE_IC_TYPE_2"},
           {"_GATE_IC_TYPE_3"}, {"_GATE_IC_TYPE_4"}, {"_GATE_IC_TYPE_5"},
           {"_GATE_IC_TYPE_6"}, {"_GATE_IC_TYPE_7"},
           {"_GATE_IC_TYPE_8_NV74_TCAR"}>>
      [] axis = "_POWER_MODULE_TYPE" ->
           <<{Undefined}, {"_PM_CASE_TYPE"}, {"_PM_DSC_TYPE_1"},
           {"_PM_DSC_TYPE_2"}, {"_PM_HP_DRIVE_TYPE"}, {"_PM_CVeGT_TYPE"},
           {"_PM_NV74_TYPE"}, {"_PM_MV_TYPE"}>>
      [] axis = "_MOT_CUR_SENSOR_TYPE" ->
           <<{Undefined}, {"_MOT_400A_SCALE_HALL"},
           {"_MOT_400A_SCALE_SHUNT_TYPE1"}, {"_MOT_500A_SCALE_SHUNT_TYPE1"},
           {"_MOT_600A_SCALE_SHUNT_TYPE1"}, {"_MOT_400A_SCALE_SHUNT_TYPE2"},
           {"_MOT_500A_SCALE_HALL"}, {"_MOT_700A_SCALE_HALL"},
           {"_MOT_700A_SCALE_SHUNT_0"}, {"_MOT_850A_SCALE_HALL"},
           {"_MOT_850A_SCALE_HALL_FOR_HPV"}, {"_MOT_1000A_SCALE_HALL"},
           {"_MOT_1300A_SCALE_HALL"}, {"_MOT_1100A_SCALE_HALL"},
           {"_MOT_1500A_SCALE_HALL"}, {"_MOT_700A_SCALE_CORELESS"},
           {"_MOT_700A_SCALE_CORELESS_TYPE2"},
           {"_MOT_650A_SCALE_CORELESS_TYPE"}>>
      [] axis = "_ETPU_CALCULATION_TIME_OPTION" ->
           <<{Undefined}, {"_SINGLE_STAGE_SYSTEM"}, {"_TWO_STAGE_SYSTEM"}>>
      [] axis = "_PWM_UPDATETIME_AUTO_MODE" ->
           <<{Undefined}, {"_UPDATETIME_AUTO"}, {"_UPDATETIME_MANUAL"}>>
      [] axis = "_SA_2STAGE_PWM_MODE" ->
           <<{"_2STG_SVPWM"}, {"_2STG_RSPWM"}>>
      [] axis = "_SA_SQPWM_REGEN_DIS" ->
           <<{"_SQPWM_REGEN_ENB"}, {"_SQPWM_REGEN_DIS"}>>
      [] axis = "_PWM_BURST_MODE" ->
           <<{Undefined}, {"_BURST_MODE_ENABLE"}, {"_BURST_MODE_DISABLE"}>>
      [] axis = "_VAR_DTGS_OPTION" ->
           <<{Undefined}, {"_VAR_DTGS_OPTION_INCLUDED"},
           {"_VAR_DTGS_OPTION_NOT_INCLUDED"}>>

\* the branches of the chain whose guard matches v
Matching(axis, v) == {i \in DOMAIN Guards(axis) : v \in Guards(axis)[i]}

\* the branch the preprocessor takes: the first that matches, 0 for #else
Taken(axis, v) ==
    IF Matching(axis, v) = {} THEN 0
    ELSE CHOOSE i \in Matching(axis, v) : \A j \in Matching(axis, v) : i <= j

\* the axes whose chain starts with a test against _UNDEFINED_OPTION
HasUndefinedCheck(axis) ==
    axis \in {"_GATE_IC_TYPE", "_POWER_MODULE_TYPE", "_MOT_CUR_SENSOR_TYPE",
              "_ETPU_CALCULATION_TIME_OPTION", "_PWM_UPDATETIME_AUTO_MODE",
              "_PWM_BURST_MODE", "_VAR_DTGS_OPTION"}

\* #if (AXIS == _UNDEFINED_OPTION) #error ... #elif (AXIS == E1) ... #else #error
\* TRUE when one of the #elif branches is taken
BranchTaken(axis, v) ==
    IF HasUndefinedCheck(axis) /\ v = Undefined THEN FALSE
    ELSE v \in Enumerators(axis)

(***************************************************************************)
(* The project cluster: project, performance type, development phase and   *)
(* market are nested #if chains.  The result is the macros the taken       *)
(* branches define, in order, and the #error diagnostics reached.          *)
(***************************************************************************)
Effect(defs, diags) == [defs |-> defs, diags |-> diags]

\* MarketBranch with Japan served by the North America branch
MarketBranchJapan(c) ==
    IF c["_MARKET_VERSION"] \in {"_NORTH_AMERICA_VERSION", "_JAPAN_VERSION"}
    THEN "NA"
    ELSE IF c["_MARKET_VERSION"] \in NonNaMarkets THEN "NON_NA"
    ELSE ""

MarketBranch(c) ==
    IF c["_MARKET_VERSION"] = "_NORTH_AMERICA_VERSION" THEN "NA"
    ELSE IF c["_MARKET_VERSION"] \in NonNaMarkets THEN "NON_NA"
    ELSE ""

\* PhaseEffect with the market selectors repeated at phase level
PhaseEffectTwice(c) ==
    LET prj == c["_PROJECT_NAME"]
        ph == c["_DEVELOPMENT_PHASE"]
    IN  IF ph \in DevelopmentPhases
        THEN IF MarketBranch(c) # ""
             THEN Effect(PhaseSelectors(prj, ph)
                           \o MarketSelectors(prj, ph, MarketBranch(c))
                           \o MarketSelectors(prj, ph, MarketBranch(c)), {})
             ELSE Effect(PhaseSelectors(prj, ph),
                         {Diag("UndefinedAxis", "_MARKET_VERSION")})
        ELSE Effect(<<>>, {Diag("UndefinedAxis", "_DEVELOPMENT_PHASE")})

PhaseEffect(c) ==
    LET prj == c["_PROJECT_NAME"]
        ph == c["_DEVELOPMENT_PHASE"]
    IN  IF ph \in DevelopmentPhases
        THEN IF MarketBranch(c) # ""
             THEN Effect(PhaseSelectors(prj, ph)
                           \o MarketSelectors(prj, ph, MarketBranch(c)), {})
             ELSE Effect(PhaseSelectors(prj, ph),
                         {Diag("UndefinedAxis", "_MARKET_VERSION")})
        ELSE Effect(<<>>, {Diag("UndefinedAxis", "_DEVELOPMENT_PHASE")})

\* ProjectEffect of a cluster whose 250 kW performance type has a torque
\* step of its own
ProjectEffectTiered(c) ==
    IF c["_PROJECT_NAME"] \in Projects
    THEN IF c["_PERFORMANCE_TYPE"] \in PerformanceTypes
         THEN IF c["_PERFORMANCE_TYPE"] = "_eM_250kW_VERSION"
              THEN Effect([i \in DOMAIN PhaseEffect(c).defs |->
                              IF PhaseEffect(c).defs[i].name = "_DELTA_TRQREF"
                              THEN M("_DELTA_TRQREF", Ref("_DELTA_TRQREF_250", ""))
                              ELSE PhaseEffect(c).defs[i]],
                          PhaseEffect(c).diags)
              ELSE PhaseEffect(c)
         ELSE Effect(<<>>, {Diag("UndefinedAxis", "_PERFORMANCE_TYPE")})
    ELSE Effect(<<>>, {})

ProjectEffect(c) ==
    IF c["_PROJECT_NAME"] \in Projects
    THEN IF c["_PERFORMANCE_TYPE"] \in PerformanceTypes
         THEN PhaseEffect(c)
         ELSE Effect(<<>>, {Diag("UndefinedAxis", "_PERFORMANCE_TYPE")})
    ELSE Effect(<<>>, {})

\* the macros the project cluster selects
SelectorNames ==
    {"_MI_REF_SETTING", "_12SMP_COND", "_RPWM_COND", "_NO_LOAD_TQ_COMP_COND",
     "_SW_RDC_SETTING", "_ROC_RPWM_FUNCTION", "_FSW_FSAMP_FREQ",
     "_OEW_FSW_FSAMP_FREQ", "_ODC_FSW_FSAMP_FREQ", "_MULTI_DC_METHOD_",
     "_MULTI_NON_LINEAR_COMP", "_CUR_MAP_VERSION", "_MOTOR_TYPE",
     "_POWER_CAL_VERSION", "_DELTA_TRQREF", "_TQ_COMP_CAL_VERSION"}

\* FlatEffect without the #else #error: no branch, no diagnostic
FlatEffectSilent(axis, v, branch) ==
    Effect(IF v \in Enumerators(axis) THEN branch ELSE <<>>, {})

\* a chain that is not nested: the macros of the taken branch or #error
FlatEffect(axis, v, branch) ==
    IF BranchTaken(axis, v)
    THEN Effect(branch, {})
    ELSE Effect(<<>>, {Diag("UndefinedAxis", axis)})

(***************************************************************************)
(* State.                                                                  *)
(***************************************************************************)
VARIABLES
    ctx,        \* the build context: axis macro -> value
    missing,    \* external names the build does not supply
    run,        \* number of the resolution in progress, NumRuns + 1 at the end
    order,      \* order of units and configuration headers of this run
    unit,       \* position in order.units of the unit being read
    stack,      \* include stack: <<[file, pos]>>, innermost file last
    guards,     \* include-guard macros defined in this unit
    entries,    \* file -> number of times its body was entered in this unit
    section,    \* the section markers read so far in this unit, in order
    macros,     \* macros bound in this unit: name -> body
    defcount,   \* name -> number of times it was bound in this unit
    declared,   \* objects declared so far in this run: name -> declaration
    table,      \* objects defined so far in this run: name -> binding
    diags,      \* diagnostics of this run
    result      \* run -> outcome

vars == <<ctx, missing, run, order, unit, stack, guards, entries, section,
          macros, defcount, declared, table, diags, result>>

EmptyFn == <<>>

Range(s) == {s[i] : i \in DOMAIN s}

Count(f, n) == IF n \in DOMAIN f THEN f[n] ELSE 0

Bump(f, n) == (n :> (Count(f, n) + 1)) @@ f

(***************************************************************************)
(* The include stack.                                                      *)
(***************************************************************************)
\* leave every file whose items are exhausted: what is left ends with the
\* innermost file that still has an item to read
Normalize(s, ord) ==
    LET open == {i \in DOMAIN s : s[i].pos <= Len(FileItems(s[i].file, ord))}
    IN  IF open = {} THEN <<>>
        ELSE SubSeq(s, 1, CHOOSE i \in open : \A j \in open : j <= i)

Advance(s, ord) == Normalize([s EXCEPT ![Len(s)].pos = @ + 1], ord)

Push(s, f, ord) ==
    Normalize(Append([s EXCEPT ![Len(s)].pos = @ + 1], [file |-> f, pos |-> 1]), ord)

StartOf(ord, u) == Normalize(<<[file |-> Units[ord.units[u]], pos |-> 1]>>, ord)

Top == stack[Len(stack)]

Item == FileItems(Top.file, order)[Top.pos]

InFile(kind) == stack # <<>> /\ Item.kind = kind

\* EnterGuard of a header that defines its guard after its #include lines
EnterGuardLate(f, g) == g

\* #ifndef GUARD / #define GUARD at the head of a header: the guard is
\* defined on entry, before any #include of the body is read
EnterGuard(f, g) == g \cup {GuardOf(f)}

(***************************************************************************)
(* #define.                                                                *)
(***************************************************************************)
NamesIn(xs) == {xs[i].name : i \in DOMAIN xs}

\* the last line of xs that names n
LastOf(xs, n) ==
    CHOOSE i \in DOMAIN xs :
        xs[i].name = n /\ \A j \in DOMAIN xs : xs[j].name = n => j <= i

\* every name counted once more for each line of xs that names it
Counted(cnt, xs) ==
    [n \in NamesIn(xs) |->
        Count(cnt, n) + Cardinality({i \in DOMAIN xs : xs[i].name = n})] @@ cnt

\* the body a macro has just before line i of ms is read, if it has one
Prior(env, ms, i) ==
    LET js == {j \in 1..(i - 1) : ms[j].name = ms[i].name}
    IN  IF js # {}
        THEN <<ms[CHOOSE j \in js : \A k \in js : k <= j].body>>
        ELSE IF ms[i].name \in DOMAIN env THEN <<env[ms[i].name]>> ELSE <<>>

\* the #define lines ms read in order: a later body replaces an earlier one
Defined(env, ms) == [n \in NamesIn(ms) |-> ms[LastOf(ms, n)].body] @@ env

\* a redefinition with another body is diagnosed
RedefinedMacros(env, ms) ==
    {Diag("Redefinition", ms[i].name) :
        i \in {k \in DOMAIN ms : /\ Prior(env, ms, k) # <<>>
                                 /\ Prior(env, ms, k)[1] # ms[k].body}}

\* (the effect is evaluated once and then applied)
ApplyEffect(eff) ==
    \E e \in {eff} :
    /\ macros' = Defined(macros, e.defs)
    /\ defcount' = Counted(defcount, e.defs)
    /\ diags' = diags \cup e.diags \cup RedefinedMacros(macros, e.defs)
    /\ stack' = Advance(stack, order)
    /\ UNCHANGED <<ctx, missing, run, order, unit, guards, entries, section,
                   declared, table, result>>

(***************************************************************************)
(* Expansion of the names an initializer uses.                             *)
(***************************************************************************)
\* Unresolved of a compiler that reads an unknown name as 0
UnresolvedNever(n, env, miss, seen) == {}

RECURSIVE Unresolved(_, _, _, _)
\* the names reached from n that are neither macros nor supplied from
\* outside; a macro that reaches itself is left unexpanded
Unresolved(n, env, miss, seen) ==
    IF n \in DOMAIN env /\ n \notin seen
    THEN UNION {Unresolved(r, env, miss, seen \cup {n}) : r \in Range(env[n].refs)}
    ELSE IF n \in ExternalNames \ miss THEN {} ELSE {n}

NamesOf(d) == Range(d.dims) \cup UNION {Range(d.init[i].refs) : i \in DOMAIN d.init}

\* number of elements of the first dimension, 0 when the unit cannot tell
DimSize(d, env) ==
    IF d.dims = <<>> THEN 1
    ELSE IF d.dims[1] = "TOTAL_TARGET" THEN TotalTarget
    ELSE IF d.dims[1] \in DOMAIN env /\ env[d.dims[1]].op = "lit" THEN env[d.dims[1]].m
    ELSE 0

\* Elements of an initializer list that lost its last entry
ElementsShort(init, n) ==
    [i \in 1..(IF n > Len(init) - 1 THEN n ELSE Len(init) - 1) |->
        IF i <= Len(init) - 1 THEN init[i] ELSE ZeroFill]

\* the elements stored for a definition: the initializers in order, then
\* zero for every element the list does not supply
Elements(init, n) ==
    [i \in 1..(IF n > Len(init) THEN n ELSE Len(init)) |->
        IF i <= Len(init) THEN init[i] ELSE ZeroFill]

\* Bind of an initializer list written in the order HSG, MOT
BindSwapped(d, env) ==
    LET el == Elements(d.init, DimSize(d, env))
    IN  [type |-> d.type, const |-> d.const, dims |-> d.dims,
         elems |-> [i \in 1..Len(el) |-> el[Len(el) + 1 - i]]]

Bind(d, env) ==
    [type |-> d.type, const |-> d.const, dims |-> d.dims,
     elems |-> Elements(d.init, DimSize(d, env))]

DefDiags(d, env, miss) ==
    {Diag("UnresolvedDependency", n) : n \in UNION {Unresolved(m, env, miss, {}) : m \in NamesOf(d)}}
    \cup (IF DimSize(d, env) > 0 /\ Len(d.init) > DimSize(d, env)
          THEN {Diag("ExcessElements", d.name)} ELSE {})

\* an object defined a second time is diagnosed
RedefinedObjects(t, ds) ==
    {Diag("Redefinition", ds[i].name) :
        i \in {k \in DOMAIN ds : \/ ds[k].name \in DOMAIN t
                                 \/ \E j \in 1..(k - 1) : ds[j].name = ds[k].name}}

ApplyDefinitions(dseq, ds_diags) ==
    \E ds \in {dseq} :
    /\ table' = [n \in NamesIn(ds) |-> Bind(ds[LastOf(ds, n)], macros)] @@ table
    /\ defcount' = Counted(defcount, ds)
    /\ diags' = diags \cup ds_diags \cup RedefinedObjects(table, ds)
                  \cup UNION {DefDiags(ds[i], macros, missing) : i \in DOMAIN ds}
    /\ stack' = Advance(stack, order)
    /\ UNCHANGED <<ctx, missing, run, order, unit, guards, entries, section,
                   macros, declared, result>>

ApplyDeclarations(xseq, xs_diags) ==
    \E xs \in {xseq} :
    /\ declared' = [n \in NamesIn(xs) |->
                        [type |-> xs[LastOf(xs, n)].type,
                         const |-> xs[LastOf(xs, n)].const,
                         dims |-> xs[LastOf(xs, n)].dims]] @@ declared
    /\ diags' = diags \cup xs_diags
    /\ stack' = Advance(stack, order)
    /\ UNCHANGED <<ctx, missing, run, order, unit, guards, entries, section,
                   macros, defcount, table, result>>

(***************************************************************************)
(* Constant expressions.  The compiler folds every initializer to a value. *)
(* A value is the exact decimal (hi * 10^8 + lo) * 10^e, negated when neg; *)
(* hi and lo are the two base-10^8 digits, so that a product of two        *)
(* eight-digit numbers is exact.  A value the units do not determine (an   *)
(* external name, a quotient) is unknown.  The rounding of a FLOAT32       *)
(* object to binary32 is not modelled: a FLOAT32 keeps the exact decimal.  *)
(***************************************************************************)
Num(neg, hi, lo, e) == [known |-> TRUE, neg |-> neg, hi |-> hi, lo |-> lo, e |-> e]

Unknown == [known |-> FALSE, neg |-> FALSE, hi |-> 0, lo |-> 0, e |-> 0]

RECURSIVE PowShort(_, _)
\* Pow that stops one factor short
PowShort(b, k) == IF k <= 1 THEN 1 ELSE b * PowShort(b, k - 1)

RECURSIVE Pow(_, _)
Pow(b, k) == IF k <= 0 THEN 1 ELSE b * Pow(b, k - 1)

\* x / 10 with the exponent kept: the last decimal digit is dropped
Shift(x) ==
    [x EXCEPT !.hi = x.hi \div 10,
              !.lo = (x.hi % 10) * 10000000 + x.lo \div 10]

RECURSIVE Norm(_)
\* the same number with no trailing decimal zero
Norm(x) ==
    IF ~x.known THEN x
    ELSE IF x.hi = 0 /\ x.lo = 0 THEN Num(FALSE, 0, 0, 0)
    ELSE IF x.lo % 10 = 0 THEN Norm([Shift(x) EXCEPT !.e = x.e + 1])
    ELSE x

\* a * b for 0 <= a, b < 10^8, as two base-10^8 digits
Prod(a, b) ==
    LET a1 == a \div 10000
        a0 == a % 10000
        b1 == b \div 10000
        b0 == b % 10000
        low == a0 * b0
        mid == a1 * b0 + a0 * b1 + low \div 10000
    IN  [hi |-> a1 * b1 + mid \div 10000,
         lo |-> (mid % 10000) * 10000 + (low % 10000)]

\* Times that leaves the second factor out
TimesOne(x, y) == x

Times(x, y) ==
    IF ~x.known \/ ~y.known \/ x.hi # 0 \/ y.hi # 0 THEN Unknown
    ELSE Norm(Num(x.neg # y.neg, Prod(x.lo, y.lo).hi, Prod(x.lo, y.lo).lo,
                  x.e + y.e))

IsInt(x) == x.known /\ x.hi = 0 /\ x.e >= 0 /\ x.e <= 4 /\ x.lo < 10000

IntOf(x) == (IF x.neg THEN -1 ELSE 1) * x.lo * Pow(10, x.e)

FromInt(n) == Norm(Num(n < 0, 0, IF n < 0 THEN -n ELSE n, 0))

\* Minus that leaves the offset out
MinusNothing(x, k) == IF IsInt(x) THEN FromInt(IntOf(x)) ELSE Unknown

\* x - k for an integer x
Minus(x, k) == IF IsInt(x) THEN FromInt(IntOf(x) - k) ELSE Unknown

\* Trunc that keeps the digits of the fraction
TruncKeep(x) == IF ~x.known \/ x.e >= 0 THEN x ELSE [x EXCEPT !.e = 0]

RECURSIVE Trunc(_)
\* conversion of a decimal to an integer type: the fraction is discarded
Trunc(x) ==
    IF ~x.known \/ x.e >= 0 THEN x
    ELSE Trunc([Shift(x) EXCEPT !.e = x.e + 1])

IsIntegerType(type) ==
    type \in {"UINT8", "UINT16", "UINT32", "INT16", "INT32", "signed long", "BOOL"}

RECURSIVE ValueOfUnsigned(_, _)
\* ValueOf that reads a literal without its sign
ValueOfUnsigned(x, env) ==
    CASE x.op = "lit" -> Norm(Num(FALSE, 0, IF x.m < 0 THEN -x.m ELSE x.m, x.e))
      [] x.op = "ref" ->
            IF x.refs[1] \in DOMAIN env
            THEN ValueOfUnsigned(env[x.refs[1]], env) ELSE Unknown
      [] x.op = "mul" ->
            IF x.refs[1] \in DOMAIN env
            THEN Times(ValueOfUnsigned(env[x.refs[1]], env),
                       Norm(Num(FALSE, 0, x.m, x.e)))
            ELSE Unknown
      [] x.op = "off" ->
            IF x.refs[1] \in DOMAIN env
            THEN Times(Minus(ValueOfUnsigned(env[x.refs[1]], env), x.k),
                       Norm(Num(FALSE, 0, x.m, x.e)))
            ELSE Unknown
      [] x.op = "fix" ->
            Times(Norm(Num(FALSE, 0, x.m, x.e)), FromInt(Pow(2, x.k)))
      [] OTHER -> Unknown

RECURSIVE ValueOf(_, _)
\* the value of the expression x against the macros env
ValueOf(x, env) ==
    CASE x.op = "lit" -> Norm(Num(x.m < 0, 0, IF x.m < 0 THEN -x.m ELSE x.m, x.e))
      [] x.op = "ref" ->
            IF x.refs[1] \in DOMAIN env THEN ValueOf(env[x.refs[1]], env) ELSE Unknown
      [] x.op = "mul" ->
            IF x.refs[1] \in DOMAIN env
            THEN Times(ValueOf(env[x.refs[1]], env), Norm(Num(FALSE, 0, x.m, x.e)))
            ELSE Unknown
      [] x.op = "off" ->
            IF x.refs[1] \in DOMAIN env
            THEN Times(Minus(ValueOf(env[x.refs[1]], env), x.k),
                       Norm(Num(FALSE, 0, x.m, x.e)))
            ELSE Unknown
      [] x.op = "fix" ->
            Times(Norm(Num(FALSE, 0, x.m, x.e)), FromInt(Pow(2, x.k)))
      [] OTHER -> Unknown

\* Divisor that leaves the literal factor out
DivisorBare(x, env) ==
    IF x.op = "rcp" /\ x.refs[1] \in DOMAIN env
    THEN ValueOf(env[x.refs[1]], env)
    ELSE Unknown

\* the value of NAME * literal in the quotient 1.f / (NAME * literal); the
\* quotient itself need not be a finite decimal
Divisor(x, env) ==
    IF x.op = "rcp" /\ x.refs[1] \in DOMAIN env
    THEN Times(ValueOf(env[x.refs[1]], env), Norm(Num(FALSE, 0, x.m, x.e)))
    ELSE Unknown

RECURSIVE Tenths(_)
\* x cut after its first decimal place
Tenths(x) ==
    IF ~x.known \/ x.e >= -1 THEN x
    ELSE Tenths([Shift(x) EXCEPT !.e = x.e + 1])

\* x rounded to the nearest integer, halves away from zero
Round(x) ==
    IF ~x.known \/ x.e >= 0 THEN x
    ELSE [Trunc(x) EXCEPT !.lo = @ + (IF Tenths(x).lo % 10 >= 5 THEN 1 ELSE 0)]

\* Stored by a conversion that rounds to the nearest integer
StoredRounded(x, type, env) ==
    IF IsIntegerType(type) THEN Norm(Round(ValueOf(x, env))) ELSE ValueOf(x, env)

\* the value an object of the given type stores for the initializer x
Stored(x, type, env) ==
    IF IsIntegerType(type) THEN Norm(Trunc(ValueOf(x, env))) ELSE ValueOf(x, env)

(***************************************************************************)
(* Build contexts.                                                         *)
(***************************************************************************)
BaseContext ==
    [a \in Axes |->
        CASE a = "_PROJECT_NAME" -> "_MV_RWD_PROJ"
          [] a = "_PERFORMANCE_TYPE" -> "_STANDARD_VERSION"
          [] a = "_DEVELOPMENT_PHASE" -> "_TCAR_VERSION"
          [] a = "_MARKET_VERSION" -> "_NORTH_AMERICA_VERSION"
          [] a = "_GATE_IC_TYPE" -> "_GATE_IC_TYPE_1"
          [] a = "_POWER_MODULE_TYPE" -> "_PM_CASE_TYPE"
          [] a = "_MOT_CUR_SENSOR_TYPE" -> "_MOT_400A_SCALE_HALL"
          [] a = "_ETPU_CALCULATION_TIME_OPTION" -> "_SINGLE_STAGE_SYSTEM"
          [] a = "_PWM_UPDATETIME_AUTO_MODE" -> "_UPDATETIME_AUTO"
          [] a = "_SA_2STAGE_PWM_MODE" -> "_2STG_SVPWM"
          [] a = "_SA_SQPWM_REGEN_DIS" -> "_SQPWM_REGEN_ENB"
          [] a = "_PWM_BURST_MODE" -> "_BURST_MODE_ENABLE"
          [] a = "_VAR_DTGS_OPTION" -> "_VAR_DTGS_OPTION_INCLUDED"]

Values(axis) == Enumerators(axis) \cup {Undefined, Other}

With(c, as, vs) == [a \in Axes |-> IF a \in DOMAIN vs /\ a \in as THEN vs[a] ELSE c[a]]

\* every assignment of the axes in as, the other axes as in BaseContext
Varying(as) == {With(BaseContext, as, vs) : vs \in [as -> UNION {Values(a) : a \in as}]}

WellTyped(c) == \A a \in Axes : c[a] \in Values(a)

\* the performance types tried with every valid project, phase and market
PerformanceSample == {"_STANDARD_VERSION", "_eM_250kW_VERSION"}

\* every valid project tuple of the sample
ValidProjectContexts ==
    {[BaseContext EXCEPT !["_PROJECT_NAME"] = p, !["_PERFORMANCE_TYPE"] = t,
                         !["_DEVELOPMENT_PHASE"] = ph, !["_MARKET_VERSION"] = m] :
        p \in Projects, t \in PerformanceSample,
        ph \in DevelopmentPhases, m \in MarketVersions}

\* project tuples with any number of axes out of range
BrokenProjectContexts ==
    {[BaseContext EXCEPT !["_PROJECT_NAME"] = p, !["_PERFORMANCE_TYPE"] = t,
                         !["_DEVELOPMENT_PHASE"] = ph, !["_MARKET_VERSION"] = m] :
        p \in {"_MV_RWD_PROJ", "_ME_RWD_PROJ", Other},
        t \in {"_STANDARD_VERSION", Other},
        ph \in {"_TCAR_VERSION", "_PROTO_VERSION", Undefined},
        m \in {"_NORTH_AMERICA_VERSION", "_DOMESTIC_VERSION", Other}}

\* the gate IC types tried with every power module type
GateIcSample == GateIcTypes \cup {Undefined, Other}

\* the project tuples, every value of every axis, every pair of axes of the
\* same header together, and every pair of axes out of range
Contexts ==
    ValidProjectContexts \cup BrokenProjectContexts
    \cup UNION {{c \in Varying({a}) : WellTyped(c)} : a \in Axes}
    \cup {c \in Varying({"_GATE_IC_TYPE", "_POWER_MODULE_TYPE"}) :
             WellTyped(c) /\ c["_GATE_IC_TYPE"] \in GateIcSample}
    \cup {c \in Varying({"_ETPU_CALCULATION_TIME_OPTION", "_PWM_UPDATETIME_AUTO_MODE"}) : WellTyped(c)}
    \cup {c \in Varying({"_SA_2STAGE_PWM_MODE", "_SA_SQPWM_REGEN_DIS"}) : WellTyped(c)}
    \cup {c \in Varying({"_PWM_BURST_MODE", "_VAR_DTGS_OPTION"}) : WellTyped(c)}
    \cup {With(BaseContext, {a, b}, (a :> Other) @@ (b :> Undefined)) : a, b \in Axes}

Valid(c) == \A a \in Axes : c[a] \in Enumerators(a)

NoResult == [status |-> "none", table |-> EmptyFn, selectors |-> EmptyFn, diags |-> {}]

(***************************************************************************)
(* Init: the first unit of the first run is about to be read.              *)
(***************************************************************************)
Init ==
    /\ ctx \in Contexts
    /\ missing \in {{}} \cup (IF ctx = BaseContext
                              THEN {{n} : n \in ExternalNames} ELSE {})
    /\ run = 1
    /\ order = FirstOrder
    /\ unit = 1
    /\ stack = StartOf(FirstOrder, 1)
    /\ guards = {}
    /\ entries = EmptyFn
    /\ section = <<>>
    /\ macros = EmptyFn
    /\ defcount = EmptyFn
    /\ declared = EmptyFn
    /\ table = EmptyFn
    /\ diags = {}
    /\ result = [r \in 1..NumRuns |-> NoResult]

(***************************************************************************)
(* #include "file"                                                         *)
(***************************************************************************)
Include ==
    /\ InFile("include")
    /\ LET f == Item.file
       IN  IF Len(stack) >= MaxIncludeDepth
           THEN /\ diags' = diags \cup {Diag("IncludeDepth", f)}
                /\ stack' = Advance(stack, order)
                /\ UNCHANGED <<guards, entries, section>>
           ELSE IF f \in SectionMarkers
           THEN /\ section' = Append(section, f)
                /\ stack' = Advance(stack, order)
                /\ UNCHANGED <<guards, entries, diags>>
           ELSE IF GuardOf(f) \in guards
           THEN /\ stack' = Advance(stack, order)
                /\ UNCHANGED <<guards, entries, section, diags>>
           ELSE /\ guards' = EnterGuard(f, guards)
                /\ entries' = Bump(entries, f)
                /\ stack' = Push(stack, f, order)
                /\ UNCHANGED <<section, diags>>
    /\ UNCHANGED <<ctx, missing, run, order, unit, macros, defcount, declared,
                   table, result>>

(***************************************************************************)
(* The unconditional #define lines of a header.                            *)
(***************************************************************************)
\* DefineMacros of a SpInvCal.h whose VAR_FSW_JNC_COMP_TAB_SIZE is 4
DefineMacrosResized ==
    /\ InFile("Defines")
    /\ ApplyEffect(Effect([i \in DOMAIN Defines(Top.file) |->
                              IF /\ Top.file = "SpInvCal.h"
                                 /\ Defines(Top.file)[i].name = "VAR_FSW_JNC_COMP_TAB_SIZE"
                              THEN M("VAR_FSW_JNC_COMP_TAB_SIZE", Lit(4, 0))
                              ELSE Defines(Top.file)[i]], {}))

DefineMacros ==
    /\ InFile("Defines")
    /\ ApplyEffect(Effect(Defines(Top.file), {}))

(***************************************************************************)
(* CcCalPrjCfg.h: #if (_PROJECT_NAME == ...) ... #endif                    *)
(***************************************************************************)
ProjectCluster ==
    /\ InFile("ProjectCluster")
    /\ ApplyEffect(ProjectEffect(ctx))

(***************************************************************************)
(* SpInvCal.h: the gate IC, power module and current sensor chains.        *)
(***************************************************************************)
\* GateIcEffect of a chain whose seventh branch falls into the eighth
GateIcEffectNeighbour(v) ==
    FlatEffect("_GATE_IC_TYPE", v,
               GateIcBranch(IF v = "_GATE_IC_TYPE_7" THEN "_GATE_IC_TYPE_8_NV74_TCAR" ELSE v))

GateIcEffect(v) == FlatEffect("_GATE_IC_TYPE", v, GateIcBranch(v))

\* GateIcType of a chain whose branch for gate IC type 6 has a minimum pulse
\* width of 122000 ns for the second motor inverter
GateIcTypeWide ==
    /\ InFile("GateIcType")
    /\ ApplyEffect(Effect([i \in DOMAIN GateIcEffect(ctx["_GATE_IC_TYPE"]).defs |->
                              IF /\ ctx["_GATE_IC_TYPE"] = "_GATE_IC_TYPE_6"
                                 /\ GateIcEffect(ctx["_GATE_IC_TYPE"]).defs[i].name
                                    = "BSWCFGPWM_MOT_INV2_MIN_WIDTH"
                              THEN M("BSWCFGPWM_MOT_INV2_MIN_WIDTH", Lit(122000, 0))
                              ELSE GateIcEffect(ctx["_GATE_IC_TYPE"]).defs[i]],
                          GateIcEffect(ctx["_GATE_IC_TYPE"]).diags))

GateIcType ==
    /\ InFile("GateIcType")
    /\ ApplyEffect(GateIcEffect(ctx["_GATE_IC_TYPE"]))

\* PowerModuleEffect with an #else that binds the first branch
PowerModuleEffectDefault(v) ==
    Effect(PowerModuleBranch(IF v \in PowerModuleTypes THEN v ELSE "_PM_CASE_TYPE"), {})

PowerModuleEffect(v) == FlatEffect("_POWER_MODULE_TYPE", v, PowerModuleBranch(v))

PowerModuleType ==
    /\ InFile("PowerModuleType")
    /\ ApplyEffect(PowerModuleEffect(ctx["_POWER_MODULE_TYPE"]))

\* MotCurSensorEffect of a chain that is read only after the project cluster
MotCurSensorEffectAfterProject(v) ==
    IF "_MOTOR_TYPE" \in DOMAIN macros
    THEN FlatEffect("_MOT_CUR_SENSOR_TYPE", v, CurSensorBranch(v))
    ELSE Effect(<<>>, {Diag("UndefinedAxis", "_MOTOR_TYPE")})

MotCurSensorEffect(v) == FlatEffect("_MOT_CUR_SENSOR_TYPE", v, CurSensorBranch(v))

MotCurSensorType ==
    /\ InFile("MotCurSensorType")
    /\ ApplyEffect(MotCurSensorEffect(ctx["_MOT_CUR_SENSOR_TYPE"]))

(***************************************************************************)
(* BswCfgPwm.h: the eTPU calculation time and update time mode chains.     *)
(***************************************************************************)
\* EtpuOptionEffect of a two-stage branch with a longer INV1 update time of
\* the motor
EtpuOptionEffectLonger(v) ==
    FlatEffect("_ETPU_CALCULATION_TIME_OPTION", v,
               [i \in DOMAIN EtpuOptionBranch(v) |->
                   IF /\ v = "_TWO_STAGE_SYSTEM"
                      /\ EtpuOptionBranch(v)[i].name = "BSWCFGPWM_MOT_INV1_UPDATE_TIME"
                   THEN M("BSWCFGPWM_MOT_INV1_UPDATE_TIME", Lit(4800, 0))
                   ELSE EtpuOptionBranch(v)[i]])

EtpuOptionEffect(v) ==
    FlatEffect("_ETPU_CALCULATION_TIME_OPTION", v, EtpuOptionBranch(v))

EtpuOption ==
    /\ InFile("EtpuOption")
    /\ ApplyEffect(EtpuOptionEffect(ctx["_ETPU_CALCULATION_TIME_OPTION"]))

\* UpdateTimeModeEffect of a chain whose two branches are exchanged
UpdateTimeModeEffectExchanged(v) ==
    FlatEffect("_PWM_UPDATETIME_AUTO_MODE", v,
               UpdateTimeModeBranch(IF v = "_UPDATETIME_AUTO" THEN "_UPDATETIME_MANUAL"
                                    ELSE IF v = "_UPDATETIME_MANUAL" THEN "_UPDATETIME_AUTO"
                                    ELSE v))

UpdateTimeModeEffect(v) ==
    FlatEffect("_PWM_UPDATETIME_AUTO_MODE", v, UpdateTimeModeBranch(v))

UpdateTimeMode ==
    /\ InFile("UpdateTimeMode")
    /\ ApplyEffect(UpdateTimeModeEffect(ctx["_PWM_UPDATETIME_AUTO_MODE"]))

(***************************************************************************)
(* extern declarations of a header and object definitions of a source.     *)
(***************************************************************************)
Declare ==
    /\ InFile("Declarations")
    /\ ApplyDeclarations(Declarations(Top.file, Item.part), {})

DefineObjects ==
    /\ InFile("Definitions")
    /\ ApplyDefinitions(Definitions(Top.file, Item.part), {})

(***************************************************************************)
(* CcCalBase.h / CcCalBase.c: the 2-stage PWM, SQPWM regen, burst mode and *)
(* variable DTGS chains select declarations in the header and definitions  *)
(* in the source.                                                          *)
(***************************************************************************)
FeatureAxes ==
    {"_SA_2STAGE_PWM_MODE", "_SA_SQPWM_REGEN_DIS", "_PWM_BURST_MODE",
     "_VAR_DTGS_OPTION"}

FeatureDiags(axis) ==
    IF BranchTaken(axis, ctx[axis]) THEN {} ELSE {Diag("UndefinedAxis", axis)}

FeatureDeclare ==
    /\ stack # <<>>
    /\ Item.kind \in FeatureAxes
    /\ ~IsSource(Top.file)
    /\ ApplyDeclarations(
           IF BranchTaken(Item.kind, ctx[Item.kind])
           THEN FeatureDeclarations(Item.kind, ctx[Item.kind]) ELSE <<>>,
           FeatureDiags(Item.kind))

\* FeatureDefine of a source whose burst mode chain has no #error branch and
\* defines the objects of _BURST_MODE_DISABLE for every other value
FeatureDefineDefault ==
    /\ stack # <<>>
    /\ Item.kind \in FeatureAxes
    /\ IsSource(Top.file)
    /\ ApplyDefinitions(
           IF BranchTaken(Item.kind, ctx[Item.kind])
           THEN FeatureDefinitions(Item.kind, ctx[Item.kind])
           ELSE IF Item.kind = "_PWM_BURST_MODE"
           THEN FeatureDefinitions(Item.kind, "_BURST_MODE_DISABLE")
           ELSE <<>>,
           FeatureDiags(Item.kind))

FeatureDefine ==
    /\ stack # <<>>
    /\ Item.kind \in FeatureAxes
    /\ IsSource(Top.file)
    /\ ApplyDefinitions(
           IF BranchTaken(Item.kind, ctx[Item.kind])
           THEN FeatureDefinitions(Item.kind, ctx[Item.kind]) ELSE <<>>,
           FeatureDiags(Item.kind))

(***************************************************************************)
(* End of a unit: the next unit starts with no macro and no guard.         *)
(***************************************************************************)
FinishUnit ==
    /\ run <= NumRuns
    /\ stack = <<>>
    /\ unit < NumUnits
    /\ unit' = unit + 1
    /\ stack' = StartOf(order, unit + 1)
    /\ guards' = {}
    /\ entries' = EmptyFn
    /\ section' = <<>>
    /\ macros' = EmptyFn
    /\ defcount' = EmptyFn
    /\ UNCHANGED <<ctx, missing, run, order, declared, table, diags, result>>

\* Outcome of a build that keeps what it bound before it failed
OutcomePartial(t, env, ds) ==
    [status |-> IF ds = {} THEN "ok" ELSE "failed", table |-> t,
     selectors |-> [n \in SelectorNames \cap DOMAIN env |-> env[n]],
     diags |-> ds]

\* the outcome of a build: the objects and the project selectors, only
\* when there was no diagnostic
Outcome(t, env, ds) ==
    IF ds = {}
    THEN [status |-> "ok", table |-> t,
          selectors |-> [n \in SelectorNames \cap DOMAIN env |-> env[n]],
          diags |-> {}]
    ELSE [status |-> "failed", table |-> EmptyFn, selectors |-> EmptyFn,
          diags |-> ds]

(***************************************************************************)
(* End of the last unit: the run has its outcome; the next run resolves    *)
(* the same context in an order of its own.                                *)
(***************************************************************************)
FinishRun ==
    /\ run <= NumRuns
    /\ stack = <<>>
    /\ unit = NumUnits
    /\ result' = [result EXCEPT ![run] = Outcome(table, macros, diags)]
    /\ run' = run + 1
    /\ unit' = 1
    /\ guards' = {}
    /\ entries' = EmptyFn
    /\ section' = <<>>
    /\ macros' = EmptyFn
    /\ defcount' = EmptyFn
    /\ declared' = EmptyFn
    /\ table' = EmptyFn
    /\ diags' = {}
    /\ IF run < NumRuns
       THEN \E o \in Orders : order' = o /\ stack' = StartOf(o, 1)
       ELSE order' = order /\ stack' = <<>>
    /\ UNCHANGED <<ctx, missing>>

Next ==
    \/ Include
    \/ DefineMacros
    \/ ProjectCluster
    \/ GateIcType
    \/ PowerModuleType
    \/ MotCurSensorType
    \/ EtpuOption
    \/ UpdateTimeMode
    \/ Declare
    \/ DefineObjects
    \/ FeatureDeclare
    \/ FeatureDefine
    \/ FinishUnit
    \/ FinishRun

Spec == Init /\ [][Next]_vars

\* the contexts of the termination check: one valid context of each
\* project, with every external name supplied
FairContexts ==
    {c \in ValidProjectContexts :
        /\ c["_PERFORMANCE_TYPE"] = "_STANDARD_VERSION"
        /\ c["_DEVELOPMENT_PHASE"] = "_PILOT_1_VERSION"
        /\ c["_MARKET_VERSION"] = "_JAPAN_VERSION"}

FairInit == Init /\ ctx \in FairContexts /\ missing = {}

\* the preprocessor and compiler always take their next step
FairSpec == FairInit /\ [][Next]_vars /\ WF_vars(Next)

(***************************************************************************)
(* Properties.                                                             *)
(***************************************************************************)
Done(r) == result[r].status # "none"

Runs == 1..NumRuns

\* the last unit of a run has been read and the run has no outcome yet
RunEnd == run <= NumRuns /\ stack = <<>> /\ unit = NumUnits

\* a unit has been read to its end
UnitEnd == run <= NumRuns /\ stack = <<>>

OutOfRange(a) == ctx[a] \notin Enumerators(a)

Reports(r, a) ==
    /\ result[r].status = "failed"
    /\ Diag("UndefinedAxis", a) \in result[r].diags

DeadTimeNames ==
    {"BSWCFGPWM_MOT_INV1_DEADTIME", "BSWCFGPWM_MOT_INV2_DEADTIME",
     "BSWCFGPWM_MOT_DEADTIME_MULTI", "BSWCFGPWM_HSG_INV1_DEADTIME",
     "BSWCFGPWM_HSG_INV2_DEADTIME"}

\* C2: when the power module type is missing or undefined the resolution
\* fails with UndefinedAxis naming the power module type, no dead-time
\* constant is ever bound and no table is produced.
C2_PowerModuleUndefined ==
    OutOfRange("_POWER_MODULE_TYPE") =>
        /\ DeadTimeNames \cap DOMAIN macros = {}
        /\ \A r \in Runs : Done(r) =>
              /\ Reports(r, "_POWER_MODULE_TYPE")
              /\ result[r].table = EmptyFn

\* a run ended on a context with the undefined power module type
C2_Witness ==
    /\ ctx["_POWER_MODULE_TYPE"] = Undefined
    /\ Done(1)
    /\ Reports(1, "_POWER_MODULE_TYPE")

Complete(r) ==
    /\ SelectorNames \subseteq DOMAIN result[r].selectors
    /\ DOMAIN result[r].table # {}

Nothing(r) == result[r].table = EmptyFn /\ result[r].selectors = EmptyFn

BoundTwice == {n \in DOMAIN defcount : defcount[n] > 1}

CurrentUnit == Units[order.units[unit]]

\* C4 (as stated): in every valid context every declared name is bound
\* exactly once: every name bound in a unit is bound once there, the objects
\* defined are exactly the objects declared, the run succeeds and its outcome
\* holds these objects and the sixteen project selectors.
C4_EachBoundOnce ==
    Valid(ctx) /\ missing = {} =>
        /\ UnitEnd => BoundTwice = {} /\ SelectorNames \subseteq DOMAIN defcount
        /\ RunEnd => diags = {} /\ DOMAIN table = DOMAIN declared
        /\ \A r \in Runs : Done(r) =>
              /\ result[r].status = "ok"
              /\ DOMAIN result[r].selectors = SelectorNames
              /\ DOMAIN result[r].table # {}

\* C4 (amended): as stated, except for VAR_FSW_JNC_COMP_TAB_SIZE, which the
\* unit CcCalBase.c binds twice, once from SpInvCal.h and once from
\* CcCalBase.h, both times to the same body; every other name, and each of
\* the sixteen project selectors, is bound exactly once in every unit.
C4_EachBoundOnceButTabSize ==
    Valid(ctx) /\ missing = {} =>
        /\ UnitEnd =>
              /\ BoundTwice = IF CurrentUnit = "CcCalBase.c"
                              THEN {"VAR_FSW_JNC_COMP_TAB_SIZE"} ELSE {}
              /\ \A n \in BoundTwice : defcount[n] = 2
              /\ \A n \in SelectorNames : Count(defcount, n) = 1
        /\ RunEnd => diags = {} /\ DOMAIN table = DOMAIN declared
        /\ \A r \in Runs : Done(r) =>
              /\ result[r].status = "ok"
              /\ DOMAIN result[r].selectors = SelectorNames
              /\ DOMAIN result[r].table # {}

\* a run on an ME market-level context ended with its three market-level
\* selectors in the outcome
C4_Witness ==
    /\ Valid(ctx)
    /\ ctx["_PROJECT_NAME"] = "_ME_RWD_PROJ"
    /\ ctx["_DEVELOPMENT_PHASE"] = "_PILOT_1_VERSION"
    /\ ctx["_MARKET_VERSION"] = "_EUROPE_VERSION"
    /\ Done(1)
    /\ result[1].status = "ok"
    /\ result[1].selectors["_MOTOR_TYPE"] = Ref("_ME_P1_REAR_MOTOR", "")
    /\ "CcCal_PwmOff_WaitTime" \in DOMAIN result[1].table

RECURSIVE Leaves(_, _, _)
\* the names that are left when n is expanded against env
Leaves(n, env, seen) ==
    IF n \in DOMAIN env /\ n \notin seen
    THEN UNION {Leaves(r, env, seen \cup {n}) : r \in Range(env[n].refs)}
    ELSE {n}

\* the names the elements of a binding use
UsedBy(b) == Range(b.dims) \cup UNION {Range(b.elems[i].refs) : i \in DOMAIN b.elems}

\* C5: the macros never refer to themselves, every name an object of the
\* unit uses expands to names that are supplied, or else the name that is
\* left is reported as UnresolvedDependency and the run fails without a
\* table; a name the build does not supply is always reported.
C5_UnboundNameReported ==
    /\ \A n \in DOMAIN macros : Leaves(n, macros, {}) \cap DOMAIN macros = {}
    /\ UnitEnd =>
          \A n \in DOMAIN table \cap DOMAIN defcount :
              \A u \in UsedBy(table[n]) :
                  \A l \in Leaves(u, macros, {}) :
                      \/ l \in ExternalNames \ missing
                      \/ Diag("UnresolvedDependency", l) \in diags
    /\ \A r \in Runs : Done(r) =>
          \A n \in missing :
              /\ result[r].status = "failed"
              /\ result[r].table = EmptyFn
              /\ Diag("UnresolvedDependency", n) \in result[r].diags

\* a run that was not supplied CUR_SENSOR_RANGE_HSG ended
C5_Witness ==
    /\ missing = {"CUR_SENSOR_RANGE_HSG"}
    /\ Done(1)
    /\ Diag("UnresolvedDependency", "CUR_SENSOR_RANGE_HSG") \in result[1].diags

NoSecondEntry ==
    /\ \A f \in DOMAIN entries : entries[f] <= 1
    /\ \A d \in diags : d.kind # "IncludeDepth"
    /\ Len(stack) < MaxIncludeDepth

\* C7: every resolution ends; no header, CcCalPrjCfg.h with its #include of
\* itself among them, is entered twice in a unit, and the include nesting
\* never reaches the limit.
C7_Terminates == [](NoSecondEntry) /\ <>(run = NumRuns + 1)

\* CcCalPrjCfg.h is being read after its #include of itself was skipped
C7_Witness ==
    /\ stack # <<>>
    /\ Top.file = "CcCalPrjCfg.h"
    /\ Top.pos = 2
    /\ Count(entries, "CcCalPrjCfg.h") = 1
    /\ Valid(ctx)

PerTarget(b) == b.dims # <<>> /\ b.dims[1] = "TOTAL_TARGET"

\* P holds of the objects bound so far and, when the last run has ended, of
\* the objects of every outcome (an outcome never changes once it is recorded)
InEveryTable(P(_)) ==
    /\ P(table)
    /\ run = NumRuns + 1 => \A r \in Runs : P(result[r].table)

TwoEntries(t) ==
    \A n \in DOMAIN t :
        PerTarget(t[n]) =>
            /\ Len(t[n].elems) = TotalTarget
            /\ \A i \in DOMAIN t[n].elems : t[n].elems[i].op # "zero"

\* C8: every object whose first dimension is TOTAL_TARGET has exactly two
\* elements, each one supplied by its initializer.
C8_TwoEntries == InEveryTable(TwoEntries)

\* FSW_TAB, MAGINJ_TAB and the burst-mode arrays of the disabled branch
\* are in the outcome of a run
C8_Witness ==
    /\ Done(1)
    /\ ctx["_PWM_BURST_MODE"] = "_BURST_MODE_DISABLE"
    /\ {"FSW_TAB", "MAGINJ_TAB", "CcCal_PwmOff_MotTqLvl_Max"} \subseteq DOMAIN result[1].table
    /\ Len(result[1].table["FSW_TAB"].elems) = 2

TargetOrder(t) ==
    \A n \in DOMAIN t :
        PerTarget(t[n]) =>
            \A i \in DOMAIN t[n].elems :
                /\ i <= TotalTarget
                /\ t[n].elems[i].tgt \in {"", Targets[i]}

\* C10: in every object whose first dimension is TOTAL_TARGET the first
\* element is not derived from an HSG constant and the second is not derived
\* from a MOT constant.
C10_TargetOrder == InEveryTable(TargetOrder)

\* the dead-time array of a run carries the MOT constant first
C10_Witness ==
    /\ Done(1)
    /\ "CcCal_DeadTimeComp_TdeadComp_INV1" \in DOMAIN result[1].table
    /\ result[1].table["CcCal_DeadTimeComp_TdeadComp_INV1"].elems[1].tgt = "MOT"
    /\ result[1].table["CcCal_DeadTimeComp_TdeadComp_INV1"].elems[2].tgt = "HSG"
    /\ result[1].table["FSW_TAB"].elems[2].tgt = "HSG"

\* the unit CcCalBase.c has been read to its end: its macros are those its
\* initializers were folded against
BaseEnd == UnitEnd /\ CurrentUnit = "CcCalBase.c"

\* the literal a branch gives the macro n
BranchLiteral(branch, n) == branch[LastOf(branch, n)].body

\* n * 10^-9
Nano(n) == Norm(Num(FALSE, 0, n, -9))

DeadTimeComp(inv) == "CcCal_DeadTimeComp_TdeadComp_" \o inv

DeadTime(t, inv) == "BSWCFGPWM_" \o t \o "_" \o inv \o "_DEADTIME"

\* C11: for every power-module type, inverter and target, the value stored in
\* CcCal_DeadTimeComp_TdeadComp_INVn[t] is (dead time - 100) * 1e-9 with the
\* dead-time literal of the branch the power-module type selects.
C11_DeadTimeComp ==
    BaseEnd /\ ctx["_POWER_MODULE_TYPE"] \in PowerModuleTypes =>
        \A inv \in {"INV1", "INV2"} : \A i \in 1..TotalTarget :
            /\ DeadTimeComp(inv) \in DOMAIN table
            /\ Stored(table[DeadTimeComp(inv)].elems[i],
                      table[DeadTimeComp(inv)].type, macros)
               = Nano(BranchLiteral(PowerModuleBranch(ctx["_POWER_MODULE_TYPE"]),
                                    DeadTime(Targets[i], inv)).m - 100)

\* _PM_CVeGT_TYPE: 1900 ns on the first and 3900 ns on the second inverter
\* of the motor
C11_Witness ==
    /\ BaseEnd
    /\ ctx["_POWER_MODULE_TYPE"] = "_PM_CVeGT_TYPE"
    /\ Stored(table[DeadTimeComp("INV1")].elems[1], "FLOAT32", macros) = Num(FALSE, 0, 19, -7)
    /\ Stored(table[DeadTimeComp("INV2")].elems[1], "FLOAT32", macros) = Num(FALSE, 0, 39, -7)

\* range * 0.00061035 for a range of at most eight digits
Scaled(r) ==
    Norm(Num(FALSE, Prod(Norm(r).lo, 61035).hi, Prod(Norm(r).lo, 61035).lo,
             Norm(r).e - 8))

\* the value of a literal of the units
Literal(x) == Num(x.m < 0, 0, IF x.m < 0 THEN -x.m ELSE x.m, x.e)

MotScaleFactor ==
    Stored(table["CcCal_Cur_ScaleFactor"].elems[1],
           table["CcCal_Cur_ScaleFactor"].type, macros)

\* C12: for every motor current-sensor type CcCal_Cur_ScaleFactor[MOT] is
\* the CUR_SENSOR_RANGE_MOT of the selected branch times 0.00061035, and it
\* is 0.24414 for the two sensor types whose range is 400 A.
C12_ScaleFactor ==
    BaseEnd /\ ctx["_MOT_CUR_SENSOR_TYPE"] \in MotCurSensorTypes =>
        /\ "CcCal_Cur_ScaleFactor" \in DOMAIN table
        /\ MotScaleFactor
           = Scaled(Literal(BranchLiteral(CurSensorBranch(ctx["_MOT_CUR_SENSOR_TYPE"]),
                                          "CUR_SENSOR_RANGE_MOT")))
        /\ ctx["_MOT_CUR_SENSOR_TYPE"]
             \in {"_MOT_400A_SCALE_HALL", "_MOT_400A_SCALE_SHUNT_TYPE1"}
           => MotScaleFactor = Num(FALSE, 0, 24414, -5)

\* the shunt sensor of range 588.2353 A resolves to 0.359029415355
C12_Witness ==
    /\ BaseEnd
    /\ ctx["_MOT_CUR_SENSOR_TYPE"] = "_MOT_600A_SCALE_SHUNT_TYPE1"
    /\ MotScaleFactor = Num(FALSE, 3590, 29415355, -12)

\* the unit BswCfgPwm.c has been read to its end
PwmEnd == UnitEnd /\ CurrentUnit = "BswCfgPwm.c"

\* the scalar object n holds the integer k
Holds(n, k) ==
    /\ n \in DOMAIN table
    /\ IsInt(Stored(table[n].elems[1], table[n].type, macros))
    /\ IntOf(Stored(table[n].elems[1], table[n].type, macros)) = k

\* C13: with _GATE_IC_TYPE_7 the minimum pulse widths of both inverters are
\* 300 ns and the ASAC edge offset is 390 ns, for the motor and for the HSG,
\* in the macros and in the BswCfgCal_Pwm objects initialised from them.
C13_GateIcType7 ==
    PwmEnd /\ ctx["_GATE_IC_TYPE"] = "_GATE_IC_TYPE_7" =>
        \A t \in {"Mot", "Hsg"} :
            /\ Holds("BswCfgCal_Pwm_" \o t \o "MinPulseWidth_INV1", 300)
            /\ Holds("BswCfgCal_Pwm_" \o t \o "MinPulseWidth_INV2", 300)
            /\ Holds("BswCfgCal_Pwm_" \o t \o "AsacEdgeOffset", 390)

\* a build with _GATE_IC_TYPE_7 has read BswCfgPwm.c without a diagnostic
\* and its neighbour branches would have given other values
C13_Witness ==
    /\ PwmEnd
    /\ ctx["_GATE_IC_TYPE"] = "_GATE_IC_TYPE_7"
    /\ diags = {}
    /\ Holds("BswCfgCal_Pwm_MotMinPulseWidth_INV1", 300)
    /\ BranchLiteral(GateIcBranch("_GATE_IC_TYPE_6"), "BSWCFGPWM_MOT_INV1_MIN_WIDTH").m = 3000
    /\ BranchLiteral(GateIcBranch("_GATE_IC_TYPE_8_NV74_TCAR"), "BSWCFGPWM_MOT_INV1_MIN_WIDTH").m = 3000

\* the value stored in element i of the object n
Element(n, i) == Stored(table[n].elems[i], table[n].type, macros)

\* the decimal coefficient written in element i of the mantissa object n
Coefficient(n, i) == Literal(table[n].elems[i])

\* k as a value, eight digits at most
Whole(k) == Num(FALSE, 0, k, 0)

\* K * 2^s
Scale2(K, s) == Times(Norm(K), FromInt(Pow(2, s)))

GainPairs ==
    {<<"CcCal_SWRDC_GainUpdate_K1D", "CcCal_SWRDC_GainUpdate_K1SCALE">>,
     <<"CcCal_SWRDC_GainUpdate_K2D", "CcCal_SWRDC_GainUpdate_K2SCALE">>}

RdcEnd == UnitEnd /\ CurrentUnit = "BswCfgRdc.c"

\* the integer an integer object makes of element i of its initializer list
Mantissa(n, i) == Trunc(ValueOf(table[n].elems[i], macros))

\* 0 <= x < n for an integer n
Below(x, n) ==
    /\ x.known /\ ~x.neg
    /\ Trunc(x).hi = 0 /\ Trunc(x).e = 0 /\ Trunc(x).lo < n

\* an integer within -2^31 .. 2^31 - 1
InInt32(x) ==
    /\ x.known /\ x.e = 0
    /\ \/ x.hi < 21
       \/ x.hi = 21 /\ x.lo <= 47483647 + (IF x.neg THEN 1 ELSE 0)

\* the coefficient and scale objects of the resolver gains
RdcPairs ==
    {<<"BswCfgCal_Rdc_" \o t \o k, "BswCfgCal_Rdc_" \o t \o k \o "Scale">> :
        t \in {"Mot", "Hsg"}, k \in {"K1", "K2"}}

RangeOverflow(n) == Diag("RangeOverflow", n) \in diags

\* K < 2^(31 - s) for a scale s of 4 .. 31
Bounded(K, s) == IsInt(s) /\ IntOf(s) >= 4 /\ IntOf(s) <= 31 /\ Below(K, Pow(2, 31 - IntOf(s)))

Close(m, x) ==
    /\ m.known /\ x.known /\ m.e = 0 /\ m.hi = 0 /\ Trunc(x).hi = 0
    /\ \/ Trunc(x).lo \in {m.lo - 1, m.lo}
       \/ Norm(x) = Norm(Whole(m.lo + 1))

C17_EveryBindingReadOnly ==
    /\ \A n \in DOMAIN declared : declared[n].const
    /\ \A n \in DOMAIN table : table[n].const
    /\ \A r \in Runs : \A n \in DOMAIN result[r].table : result[r].table[n].const

\* the branch the model binds for the axis, by the operators of the actions:
\* TRUE when a branch with constants is taken
Selects(axis, v) ==
    CASE axis = "_PROJECT_NAME" -> v \in Projects
      [] axis = "_PERFORMANCE_TYPE" -> v \in PerformanceTypes
      [] axis = "_DEVELOPMENT_PHASE" -> v \in DevelopmentPhases
      [] axis = "_MARKET_VERSION" -> MarketBranch([a \in {axis} |-> v]) # ""
      [] OTHER -> BranchTaken(axis, v)

\* C18: for every axis and every enumerated value of it exactly one guard
\* of the chain matches, so the first and the last matching branch are the
\* same; the guards of a chain cover exactly the enumerated values and the
\* undefined marker, and the branch the build binds is the matching one.
C18_OneGuardMatches ==
    UnitEnd =>
        \A a \in Axes :
            /\ UNION Range(Guards(a)) \ {Undefined} = Enumerators(a)
            /\ ctx[a] \in Enumerators(a) =>
                  /\ Cardinality(Matching(a, ctx[a])) = 1
                  /\ \A i \in Matching(a, ctx[a]) : i = Taken(a, ctx[a])
                  /\ Selects(a, ctx[a])
            /\ ctx[a] \notin Enumerators(a) =>
                  /\ ~Selects(a, ctx[a])
                  /\ Taken(a, ctx[a]) = 0 \/ ctx[a] = Undefined
            /\ a = "_MARKET_VERSION" /\ ctx[a] \in Enumerators(a) =>
                  (MarketBranch(ctx) = "NA") = (Taken(a, ctx[a]) = 1)

\* a build for the Japanese market with the 250 kW performance type ended
\* without a diagnostic: the second market guard and the only performance
\* guard matched
C18_Witness ==
    /\ Done(1)
    /\ result[1].status = "ok"
    /\ ctx["_MARKET_VERSION"] = "_JAPAN_VERSION"
    /\ ctx["_PERFORMANCE_TYPE"] = "_eM_250kW_VERSION"
    /\ Matching("_MARKET_VERSION", ctx["_MARKET_VERSION"]) = {2}
    /\ Matching("_PERFORMANCE_TYPE", ctx["_PERFORMANCE_TYPE"]) = {1}

\* the value the macro n has at this point of the unit
MacroValue(n) == ValueOf(macros[n], macros)

\* C19 (as stated): in every build whose power-module type gives both motor
\* inverters the same dead time, the multi-mode dead time
\* BSWCFGPWM_MOT_DEADTIME_MULTI, and the object
\* BswCfgCal_Pwm_MotDeadTime_Multi initialised from it, equal that dead time.
C19_MultiEqualsMotor ==
    PwmEnd /\ ctx["_POWER_MODULE_TYPE"] \in PowerModuleTypes
           /\ MacroValue("BSWCFGPWM_MOT_INV1_DEADTIME") = MacroValue("BSWCFGPWM_MOT_INV2_DEADTIME")
    => /\ MacroValue("BSWCFGPWM_MOT_DEADTIME_MULTI") = MacroValue("BSWCFGPWM_MOT_INV1_DEADTIME")
       /\ Element("BswCfgCal_Pwm_MotDeadTime_Multi", 1) = Element("BswCfgCal_Pwm_MotDeadTime_INV1", 1)

\* the flag name element i of the object n resolves to
Flag(n, i) == Leaves(table[n].elems[i].refs[1], macros, {})

\* every element of the object n is SET_FLAG when on, CLR_FLAG when not
Mirrors(n, on) ==
    /\ n \in DOMAIN table
    /\ \A i \in DOMAIN table[n].elems :
          /\ table[n].elems[i].op = "ref"
          /\ Flag(n, i) = {IF on THEN "SET_FLAG" ELSE "CLR_FLAG"}

\* C20: TestCal_RSPWM_Enb is SET_FLAG iff the 2-stage PWM mode is RSPWM,
\* CcCal_SQPWM_Mode_Regen_Disable is SET_FLAG for both targets iff the regen
\* axis is _SQPWM_REGEN_DIS, CcCal_VarDTGS_Enb is SET_FLAG for both targets
\* iff the DTGS option is included, and the MOT and HSG update-time auto-mode
\* flags are SET_FLAG iff the update-time mode is AUTO; otherwise CLR_FLAG.
C20_FlagMirrorsAxis ==
    /\ BaseEnd =>
          /\ ctx["_SA_2STAGE_PWM_MODE"] \in TwoStagePwmModes =>
                Mirrors("TestCal_RSPWM_Enb", ctx["_SA_2STAGE_PWM_MODE"] = "_2STG_RSPWM")
          /\ ctx["_SA_SQPWM_REGEN_DIS"] \in SqpwmRegenModes =>
                /\ Mirrors("CcCal_SQPWM_Mode_Regen_Disable",
                           ctx["_SA_SQPWM_REGEN_DIS"] = "_SQPWM_REGEN_DIS")
                /\ Len(table["CcCal_SQPWM_Mode_Regen_Disable"].elems) = TotalTarget
          /\ ctx["_VAR_DTGS_OPTION"] \in VarDtgsOptions =>
                /\ Mirrors("CcCal_VarDTGS_Enb",
                           ctx["_VAR_DTGS_OPTION"] = "_VAR_DTGS_OPTION_INCLUDED")
                /\ Len(table["CcCal_VarDTGS_Enb"].elems) = TotalTarget
    /\ PwmEnd /\ ctx["_PWM_UPDATETIME_AUTO_MODE"] \in UpdateTimeModes =>
          \A n \in {"BswCfgCal_Pwm_MotUpdatetime_AutoMode",
                    "BswCfgCal_Pwm_HsgUpdatetime_AutoMode"} :
              Mirrors(n, ctx["_PWM_UPDATETIME_AUTO_MODE"] = "_UPDATETIME_AUTO")

\* a build with RSPWM and regen disabled has read CcCalBase.c: both flags
\* are SET_FLAG and the DTGS flag of the HSG is SET_FLAG as well
C20_Witness ==
    /\ BaseEnd
    /\ diags = {}
    /\ ctx["_SA_2STAGE_PWM_MODE"] = "_2STG_RSPWM"
    /\ ctx["_SA_SQPWM_REGEN_DIS"] = "_SQPWM_REGEN_DIS"
    /\ Flag("TestCal_RSPWM_Enb", 1) = {"SET_FLAG"}
    /\ Flag("CcCal_SQPWM_Mode_Regen_Disable", 2) = {"SET_FLAG"}
    /\ Flag("CcCal_VarDTGS_Enb", 2) = {"SET_FLAG"}

TabSize == "VAR_FSW_JNC_COMP_TAB_SIZE"

Redefined(ds) == {d \in ds : d.kind = "Redefinition"}

\* C21: no name is ever bound a second time to another value, neither a
\* macro nor an object, in any build and in either order of reading; the
\* only name bound twice in a unit is VAR_FSW_JNC_COMP_TAB_SIZE, and it is 3
\* wherever it is bound.
C21_NoAmbiguousBinding ==
    /\ Redefined(diags) = {}
    /\ \A r \in Runs : Redefined(result[r].diags) = {}
    /\ BoundTwice \subseteq {TabSize}
    /\ TabSize \in DOMAIN macros => macros[TabSize] = Lit(3, 0)
    /\ BaseEnd => Count(defcount, TabSize) = 2

\* the second run reads CcCalBase.c first and SpInvCal.h before
\* CcCalPrjCfg.h: the name has been bound twice and is 3
C21_Witness ==
    /\ BaseEnd
    /\ order.units[1] = 3
    /\ diags = {}
    /\ defcount[TabSize] = 2
    /\ ValueOf(macros[TabSize], macros) = Whole(3)

\* the selectors the project cluster binds in the context c
Cluster(c) == Defined(EmptyFn, ProjectEffect(c).defs)

\* C22: for a fixed project, phase and market the six performance types
\* bind the same project cluster: the selectors of a finished build are
\* those every other performance type would have given it.
C22_PerformanceTypeIrrelevant ==
    run = NumRuns + 1 /\ ctx["_PERFORMANCE_TYPE"] \in PerformanceTypes =>
        \A t \in PerformanceTypes :
            /\ Cluster([ctx EXCEPT !["_PERFORMANCE_TYPE"] = t]) = Cluster(ctx)
            /\ ProjectEffect([ctx EXCEPT !["_PERFORMANCE_TYPE"] = t]).diags
               = ProjectEffect(ctx).diags
            /\ \A r \in Runs :
                  result[r].status = "ok" =>
                      result[r].selectors
                      = Cluster([ctx EXCEPT !["_PERFORMANCE_TYPE"] = t])

\* a build of the 250 kW performance type of the ME project has ended with
\* its sixteen selectors
C22_Witness ==
    /\ run = NumRuns + 1
    /\ ctx["_PERFORMANCE_TYPE"] = "_eM_250kW_VERSION"
    /\ ctx["_PROJECT_NAME"] = "_ME_RWD_PROJ"
    /\ result[1].status = "ok"
    /\ DOMAIN result[1].selectors = SelectorNames
    /\ result[1].selectors = Cluster([ctx EXCEPT !["_PERFORMANCE_TYPE"] = "_STANDARD_VERSION"])

\* the selectors the market branches of some phase bind
MarketBound == {"_TQ_COMP_CAL_VERSION", "_POWER_CAL_VERSION", "_MOTOR_TYPE"}

\* the context c built for the market m
InMarket(c, m) == [c EXCEPT !["_MARKET_VERSION"] = m]

\* the names on which two clusters disagree
Differing(a, b) ==
    {n \in DOMAIN a \cup DOMAIN b :
        ~(n \in DOMAIN a /\ n \in DOMAIN b /\ a[n] = b[n])}

\* C23: for a fixed project, performance type and phase the five markets
\* other than North America bind the same cluster, and the North America
\* cluster differs from it in no selector other than _TQ_COMP_CAL_VERSION,
\* _POWER_CAL_VERSION and _MOTOR_TYPE; a finished build has the cluster of
\* its market branch.
C23_MarketOnlyNorthAmerica ==
    run = NumRuns + 1 /\ ctx \in ValidProjectContexts =>
        /\ \A m \in NonNaMarkets :
              /\ Cluster(InMarket(ctx, m))
                 = Cluster(InMarket(ctx, "_DOMESTIC_VERSION"))
              /\ Differing(Cluster(InMarket(ctx, "_NORTH_AMERICA_VERSION")),
                           Cluster(InMarket(ctx, m))) \subseteq MarketBound
        /\ \A r \in Runs :
              result[r].status = "ok" =>
                  /\ ctx["_MARKET_VERSION"] \in NonNaMarkets =>
                        result[r].selectors
                        = Cluster(InMarket(ctx, "_DOMESTIC_VERSION"))
                  /\ Differing(result[r].selectors,
                               Cluster(InMarket(ctx, "_NORTH_AMERICA_VERSION")))
                     \subseteq MarketBound

\* a build of the ME project for Japan in the proto phase has ended, and the
\* North America cluster differs from its own in all three selectors
C23_Witness ==
    /\ run = NumRuns + 1
    /\ ctx \in ValidProjectContexts
    /\ ctx["_PROJECT_NAME"] = "_ME_RWD_PROJ"
    /\ ctx["_DEVELOPMENT_PHASE"] = "_PROTO_VERSION"
    /\ ctx["_MARKET_VERSION"] = "_JAPAN_VERSION"
    /\ result[1].status = "ok"
    /\ result[1].selectors["_MOTOR_TYPE"] = Ref("_MV_PROTO_REAR_MOTOR", "")
    /\ Differing(result[1].selectors,
                 Cluster(InMarket(ctx, "_NORTH_AMERICA_VERSION"))) = MarketBound

\* the whole number stored in element i of the object n
Level(n, i) == IntOf(Element(n, i))

\* the hysteresis objects of a threshold: quantity q (torque or speed) of
\* the level l
Hys(q, l, bound, side) ==
    "CcCal_VarDTGS_Mot" \o q \o "Lvl" \o l \o "_" \o bound \o "_Hys" \o side

HysObjects ==
    {Hys(q, l, b, s) : q \in {"Tq", "Spd"}, l \in {"1", "2", "3"},
                       b \in {"Max", "Min"}, s \in {"In", "Out"}}

BurstObjects == {"CcCal_PwmOff_MotTqLvl_Max", "CcCal_PwmOn_MotTqLvl_Max"}

\* C24: for the three variable-DTGS levels, torque and speed, both targets
\* and every context, the exit window contains the entry window
\* (Max_HysOut >= Max_HysIn and Min_HysOut <= Min_HysIn), and the burst
\* torque maximum for PWM on is at least the one for PWM off.
C24_ExitWindowContainsEntry ==
    BaseEnd =>
        /\ HysObjects \subseteq DOMAIN table
        /\ \A n \in HysObjects : \A i \in 1..TotalTarget : IsInt(Element(n, i))
        /\ \A q \in {"Tq", "Spd"}, l \in {"1", "2", "3"}, i \in 1..TotalTarget :
              /\ Level(Hys(q, l, "Max", "Out"), i) >= Level(Hys(q, l, "Max", "In"), i)
              /\ Level(Hys(q, l, "Min", "Out"), i) <= Level(Hys(q, l, "Min", "In"), i)
        /\ ctx["_PWM_BURST_MODE"] \in BurstModes =>
              /\ BurstObjects \subseteq DOMAIN table
              /\ \A i \in 1..TotalTarget :
                    /\ IsInt(Element("CcCal_PwmOn_MotTqLvl_Max", i))
                    /\ IsInt(Element("CcCal_PwmOff_MotTqLvl_Max", i))
                    /\ Level("CcCal_PwmOn_MotTqLvl_Max", i)
                       >= Level("CcCal_PwmOff_MotTqLvl_Max", i)

\* the unit has been read with burst mode enabled: the torque window of
\* level 1 is -45 .. 80 inside -50 .. 88 and the burst maxima are 1 and 2
C24_Witness ==
    /\ BaseEnd
    /\ ctx["_PWM_BURST_MODE"] = "_BURST_MODE_ENABLE"
    /\ Level(Hys("Tq", "1", "Max", "In"), 1) = 80
    /\ Level(Hys("Tq", "1", "Max", "Out"), 1) = 88
    /\ Level(Hys("Tq", "1", "Min", "In"), 1) = -45
    /\ Level(Hys("Tq", "1", "Min", "Out"), 1) = -50
    /\ Level(Hys("Spd", "1", "Min", "Out"), 1) = 709
    /\ Level("CcCal_PwmOff_MotTqLvl_Max", 1) = 1
    /\ Level("CcCal_PwmOn_MotTqLvl_Max", 1) = 2

\* the section open after the markers s: a begin opens its section, the end
\* marker closes whatever is open
Current(s) == IF s = <<>> \/ s[Len(s)] = SectionEnd THEN "" ELSE s[Len(s)]

\* every end marker of s closes a section that is open, and no begin marker
\* is read while a section is open
Balanced(s) ==
    \A i \in DOMAIN s :
        IF s[i] = SectionEnd
        THEN i > 1 /\ s[i - 1] \in SectionBegins
        ELSE i = 1 \/ s[i - 1] = SectionEnd

\* the objects a step adds to the table
Added == {n \in DOMAIN table' : n \notin DOMAIN table}

\* C25 (as stated): in every unit the section markers are balanced (every
\* end closes an open section, sections do not nest, none is open at the
\* end of the unit), and every object defined while a section is open is
\* read-only.
C25_SectionsBalanced ==
    /\ [](Balanced(section) /\ (UnitEnd => Current(section) = ""))
    /\ [][Current(section) # "" => \A n \in Added : table'[n].const]_vars

\* the read-only and the writable update time object of a target and inverter
UpdateTimeCal(t, inv) == "BswCfgCal_Pwm_" \o t \o "UpdateTime_" \o inv

UpdateTimeVal(t, inv) == "BswCfgVal_Pwm_" \o t \o "UpdateTime_" \o inv

UpdateTimeOf(inv) == IF inv = "INV1" THEN 3800 ELSE 3000

\* C26: in every context with an enumerated eTPU calculation time option,
\* each writable update time object starts with the value of its read-only
\* twin, and both options give 3800 for INV1 and 3000 for INV2 for both
\* targets.
C26_UpdateTimeTwins ==
    PwmEnd /\ ctx["_ETPU_CALCULATION_TIME_OPTION"] \in EtpuOptions =>
        \A t \in {"Mot", "Hsg"}, inv \in {"INV1", "INV2"} :
            /\ {UpdateTimeCal(t, inv), UpdateTimeVal(t, inv)} \subseteq DOMAIN table
            /\ table[UpdateTimeCal(t, inv)].const
            /\ ~table[UpdateTimeVal(t, inv)].const
            /\ Element(UpdateTimeVal(t, inv), 1) = Element(UpdateTimeCal(t, inv), 1)
            /\ Element(UpdateTimeCal(t, inv), 1) = Norm(Whole(UpdateTimeOf(inv)))

\* the unit BswCfgPwm.c has been read for the two-stage option: the writable
\* update time of the motor is 3800 for INV1 and that of the generator 3000
\* for INV2
C26_Witness ==
    /\ PwmEnd
    /\ ctx["_ETPU_CALCULATION_TIME_OPTION"] = "_TWO_STAGE_SYSTEM"
    /\ diags = {}
    /\ IntOf(Element(UpdateTimeVal("Mot", "INV1"), 1)) = 3800
    /\ IntOf(Element(UpdateTimeVal("Hsg", "INV2"), 1)) = 3000

IcompZCC(inv) == "CcCal_DeadTimeComp_IcompZCC_" \o inv

INVIcompZCC(inv) == "CcCal_DeadTimeComp_INVIcompZCC_" \o inv

\* range * 0.05 for a range of at most eight digits
Twentieth(r) ==
    Norm(Num(FALSE, Prod(Norm(r).lo, 5).hi, Prod(Norm(r).lo, 5).lo, Norm(r).e - 2))

\* the initializer x is the quotient 1 / y of the initializer y
QuotientOf(x, y) ==
    /\ x.op = "rcp" /\ y.op = "mul"
    /\ x.refs = y.refs /\ x.m = y.m /\ x.e = y.e

Time(n) == IntOf(Element(n, 1))

PwmObject(t, n) == "BswCfgCal_Pwm_" \o t \o n

\* the timing objects of the unit BswCfgPwm.c
TimingObjects ==
    {PwmObject(t, n) : t \in {"Mot", "Hsg"},
                       n \in {"StartTime", "Period", "DeadTime_INV1", "DeadTime_INV2",
                              "MinPulseWidth_INV1", "MinPulseWidth_INV2"}}
    \cup {PwmObject("Mot", "DeadTime_Multi")}

\* C28: for every gate IC type with every power module type and for both
\* targets, the PWM start time is 125000 ns, half the period of 250000 ns,
\* every dead time is at least 100 ns, every dead time compensation is not
\* negative, and the minimum pulse width plus the dead time of each inverter
\* is less than the start time.
C28_TimingConsistent ==
    /\ ctx["_GATE_IC_TYPE"] \in GateIcTypes
    /\ ctx["_POWER_MODULE_TYPE"] \in PowerModuleTypes
    =>
    /\ PwmEnd =>
          /\ TimingObjects \subseteq DOMAIN table
          /\ \A n \in TimingObjects : IsInt(Element(n, 1))
          /\ Time(PwmObject("Mot", "DeadTime_Multi")) >= 100
          /\ \A t \in {"Mot", "Hsg"} :
                /\ Time(PwmObject(t, "StartTime")) = 125000
                /\ Time(PwmObject(t, "Period")) = 250000
                /\ 2 * Time(PwmObject(t, "StartTime")) = Time(PwmObject(t, "Period"))
                /\ \A inv \in {"INV1", "INV2"} :
                      /\ Time(PwmObject(t, "DeadTime_" \o inv)) >= 100
                      /\ Time(PwmObject(t, "MinPulseWidth_" \o inv))
                           + Time(PwmObject(t, "DeadTime_" \o inv))
                         < Time(PwmObject(t, "StartTime"))
    /\ BaseEnd =>
          \A inv \in {"INV1", "INV2"}, i \in 1..TotalTarget :
              /\ DeadTimeComp(inv) \in DOMAIN table
              /\ Element(DeadTimeComp(inv), i).known
              /\ ~Element(DeadTimeComp(inv), i).neg

\* the unit BswCfgPwm.c has been read for gate IC type 5 with the power
\* module of type DSC 2: the minimum pulse width and the dead time of the
\* motor are 4000 ns each
C28_Witness ==
    /\ PwmEnd
    /\ ctx["_GATE_IC_TYPE"] = "_GATE_IC_TYPE_5"
    /\ ctx["_POWER_MODULE_TYPE"] = "_PM_DSC_TYPE_2"
    /\ diags = {}
    /\ Time(PwmObject("Mot", "MinPulseWidth_INV2")) = 4000
    /\ Time(PwmObject("Mot", "DeadTime_INV2")) = 4000
    /\ Time(PwmObject("Hsg", "MinPulseWidth_INV1")) = 3000

\* the header that declares the objects of a unit
HeaderOf(u) ==
    CASE u = "BswCfgPwm.c" -> "BswCfgPwm.h"
      [] u = "BswCfgRdc.c" -> "BswCfgRdc.h"
      [] u = "CcCalBase.c" -> "CcCalBase.h"

\* the declarations the item it of the header h contributes in the context c
DeclaredAt(h, it, c) ==
    IF it.kind = "Declarations" THEN Declarations(h, it.part)
    ELSE IF it.kind \in FeatureAxes /\ BranchTaken(it.kind, c[it.kind])
    THEN FeatureDeclarations(it.kind, c[it.kind])
    ELSE <<>>

\* the names the header h declares in the context c
DeclaredBy(h, c) ==
    UNION {NamesIn(DeclaredAt(h, FileItems(h, FirstOrder)[i], c)) :
              i \in DOMAIN FileItems(h, FirstOrder)}

\* the units read to their end or being read
UnitsSoFar == {Units[order.units[j]] : j \in 1..unit}

\* declaration and definition of n agree in type, array shape and constness
SameSignature(n) ==
    /\ table[n].type = declared[n].type
    /\ table[n].dims = declared[n].dims
    /\ table[n].const = declared[n].const

\* C29: in every context the objects a unit defines are the objects its
\* header declares, each defined once, under the same branch of the same
\* axis, with the type, array shape and constness declared; and the two
\* branches of a feature axis declare the same names.
C29_InterfaceMatchesTable ==
    /\ UnitEnd =>
          /\ Redefined(diags) = {}
          /\ DOMAIN table = UNION {DeclaredBy(HeaderOf(u), ctx) : u \in UnitsSoFar}
          /\ \A n \in DOMAIN table : n \in DOMAIN declared /\ SameSignature(n)
          /\ \A n \in DeclaredBy(HeaderOf(CurrentUnit), ctx) : Count(defcount, n) = 1
          /\ \A u1, u2 \in UnitsSoFar :
                u1 # u2 => DeclaredBy(HeaderOf(u1), ctx) \cap DeclaredBy(HeaderOf(u2), ctx) = {}
    /\ RunEnd => DOMAIN table = DOMAIN declared
    /\ RunEnd =>
          \A a \in FeatureAxes : \A v1, v2 \in Enumerators(a) :
              NamesIn(FeatureDeclarations(a, v1)) = NamesIn(FeatureDeclarations(a, v2))

\* a run that read CcCalBase.c first has ended with burst mode disabled:
\* the burst objects are declared and defined as constant FLOAT32 arrays over
\* the targets, and the writable update time is declared and defined writable
C29_Witness ==
    /\ RunEnd
    /\ order.units[1] = 3
    /\ ctx["_PWM_BURST_MODE"] = "_BURST_MODE_DISABLE"
    /\ diags = {}
    /\ "CcCal_PwmOn_MotTqLvl_Max" \in DeclaredBy("CcCalBase.h", ctx)
    /\ declared["CcCal_PwmOn_MotTqLvl_Max"]
       = [type |-> "FLOAT32", const |-> TRUE, dims |-> <<"TOTAL_TARGET">>]
    /\ SameSignature("CcCal_PwmOn_MotTqLvl_Max")
    /\ ~table["BswCfgVal_Pwm_MotUpdateTime_INV1"].const
    /\ SameSignature("BswCfgVal_Pwm_MotUpdateTime_INV1")

=============================================================================
